---- MODULE Spec2Model ----
(***************************************************************************)
(* Simple Streaming Protocol (xmidt-org/wrpssp): the control-header codec, *)
(* the per-fragment encoding, the Packetizer and the Assembler, modelled   *)
(* as state machines over small byte strings.                              *)
(*                                                                         *)
(* Go strings are sequences of one-character strings, so that ToLower,     *)
(* TrimSpace, Cut and the numeric parsers are computed character by        *)
(* character as the code computes them.  Byte slices are sequences of      *)
(* small integers.                                                         *)
(***************************************************************************)
EXTENDS Integers, Sequences, FiniteSets, TLC

(***************************************************************************)
(* Bounds of the model.                                                    *)
(***************************************************************************)
\* highest packet number the environment sends to the Assembler
MaxPkt == 2
\* largest caller buffer handed to Assembler.Read
MaxBuf == 2
\* longest input byte stream given to a Packetizer
MaxData == 3
\* largest maximum packet size configured on a Packetizer
MaxPacketSize == 2
MaxStalls == 1

(***************************************************************************)
(* strings                                                                 *)
(***************************************************************************)
Upper == <<"A", "B", "C", "D", "E", "F", "G", "H", "I", "J", "K", "L", "M",
           "N", "O", "P", "Q", "R", "S", "T", "U", "V", "W", "X", "Y", "Z">>
Lower == <<"a", "b", "c", "d", "e", "f", "g", "h", "i", "j", "k", "l", "m",
           "n", "o", "p", "q", "r", "s", "t", "u", "v", "w", "x", "y", "z">>
Digits == <<"0", "1", "2", "3", "4", "5", "6", "7", "8", "9">>

\* unicode.ToLower on one character
ToLowerChar(c) ==
    IF \E i \in 1..26 : Upper[i] = c
    THEN Lower[CHOOSE i \in 1..26 : Upper[i] = c]
    ELSE c

\* strings.ToLower
ToLower(s) == [i \in 1..Len(s) |-> ToLowerChar(s[i])]

IsSpace(c) == c \in {" ", "\t", "\n", "\r"}

\* strings.TrimSpace
TrimSpace(s) ==
    LET keep == {i \in 1..Len(s) : ~IsSpace(s[i])}
    IN  IF keep = {} THEN <<>>
        ELSE LET lo == CHOOSE i \in keep : \A j \in keep : i <= j
                 hi == CHOOSE i \in keep : \A j \in keep : i >= j
             IN  SubSeq(s, lo, hi)

\* strings.HasPrefix
HasPrefix(s, p) == Len(s) >= Len(p) /\ SubSeq(s, 1, Len(p)) = p

\* strings.Cut(s, sep) for a one-character separator
Cut(s, sep) ==
    LET at == {i \in 1..Len(s) : s[i] = sep}
    IN  IF at = {} THEN [before |-> s, after |-> <<>>, found |-> FALSE]
        ELSE LET i == CHOOSE k \in at : \A j \in at : k <= j
             IN  [before |-> SubSeq(s, 1, i - 1),
                  after  |-> SubSeq(s, i + 1, Len(s)),
                  found  |-> TRUE]

\* strings.TrimLeft(s, "0")
TrimLeftZeros(s) ==
    LET keep == {i \in 1..Len(s) : s[i] # "0"}
    IN  IF keep = {} THEN <<>>
        ELSE SubSeq(s, CHOOSE i \in keep : \A j \in keep : i <= j, Len(s))

IsDigit(c) == \E i \in 1..10 : Digits[i] = c
DigitVal(c) == (CHOOSE i \in 1..10 : Digits[i] = c) - 1

RECURSIVE DigitsVal(_)
DigitsVal(s) ==
    IF s = <<>> THEN 0
    ELSE 10 * DigitsVal(SubSeq(s, 1, Len(s) - 1)) + DigitVal(s[Len(s)])

\* strconv.FormatInt(n, 10) / strconv.FormatUint(n, 10)
RECURSIVE FormatInt(_)
FormatInt(n) ==
    IF n < 0 THEN <<"-">> \o FormatInt(0 - n)
    ELSE IF n < 10 THEN <<Digits[n + 1]>>
    ELSE FormatInt(n \div 10) \o <<Digits[(n % 10) + 1]>>

(***************************************************************************)
(* errors (errors.go, and the library errors the code passes on).  An      *)
(* error value is its identity (kind) and the text of Error().             *)
(***************************************************************************)
Nil == [kind |-> "nil", message |-> <<>>]
EOF == [kind |-> "io.EOF", message |-> <<"E", "O", "F">>]
ErrUnexpectedEOF ==
    [kind |-> "io.ErrUnexpectedEOF",
     message |-> <<"u", "n", "e", "x", "p", "e", "c", "t", "e", "d", " ",
                   "E", "O", "F">>]
ErrHeader ==
    [kind |-> "gzip.ErrHeader",
     message |-> <<"g", "z", "i", "p", ":", " ", "i", "n", "v", "a", "l", "i",
                   "d", " ", "h", "e", "a", "d", "e", "r">>]
ErrChecksum ==
    [kind |-> "gzip.ErrChecksum",
     message |-> <<"g", "z", "i", "p", ":", " ", "i", "n", "v", "a", "l", "i",
                   "d", " ", "c", "h", "e", "c", "k", "s", "u", "m">>]
CorruptInputError ==
    [kind |-> "flate.CorruptInputError",
     message |-> <<"f", "l", "a", "t", "e", ":", " ", "c", "o", "r", "r", "u",
                   "p", "t", " ", "i", "n", "p", "u", "t">>]
ErrUnsupportedEncoding ==
    [kind |-> "ErrUnsupportedEncoding",
     message |-> <<"u", "n", "s", "u", "p", "p", "o", "r", "t", "e", "d", " ",
                   "e", "n", "c", "o", "d", "i", "n", "g">>]
ErrInvalidInput ==
    [kind |-> "ErrInvalidInput",
     message |-> <<"i", "n", "v", "a", "l", "i", "d", " ", "i", "n", "p", "u",
                   "t">>]
ErrClosed ==
    [kind |-> "ErrClosed", message |-> <<"c", "l", "o", "s", "e", "d">>]
ErrNotHandled ==
    [kind |-> "wrp.ErrNotHandled",
     message |-> <<"n", "o", "t", " ", "h", "a", "n", "d", "l", "e", "d">>]

\* &unexpectedEOF{message: m}
unexpectedEOF(m) == [kind |-> "unexpectedEOF", message |-> m]

\* err.Error()
ErrorText(e) ==
    IF e.kind = "unexpectedEOF"
    THEN <<"u", "n", "e", "x", "p", "e", "c", "t", "e", "d", " ", "E", "O",
           "F", ":", " ">> \o e.message
    ELSE e.message

\* errors.Is(e, target) for the sentinel targets the code and its callers use
ErrorIs(e, target) ==
    \/ e = target
    \/ e.kind = "unexpectedEOF" /\ target = ErrUnexpectedEOF

(***************************************************************************)
(* Encoding                                                                *)
(***************************************************************************)
EncodingIdentity == <<"i", "d", "e", "n", "t", "i", "t", "y">>
EncodingGzip == <<"g", "z", "i", "p">>
EncodingDeflate == <<"d", "e", "f", "l", "a", "t", "e">>

isValid(e) == e \in {<<>>, EncodingIdentity, EncodingGzip, EncodingDeflate}

is(e, want) ==
    IF want = EncodingIdentity
    THEN e = <<>> \/ e = EncodingIdentity
    ELSE e = want /\ isValid(e)

\* strings.SplitN(string(e), "+", 2)[0]
string(e) == Cut(e, "+").before

(***************************************************************************)
(* The two compressed formats, reduced to their framing.  A gzip member is *)
(* a magic byte, the data and a trailer holding the data's length; a       *)
(* deflate stream is one final stored block: a block header, the length,   *)
(* the data.  The readers fail as the library's do: gzip.NewReader answers *)
(* io.EOF to an empty input (no member at all), the flate reader answers   *)
(* io.ErrUnexpectedEOF to an input that ends before the final block does.  *)
(***************************************************************************)
\* the gzip writer as it would be if Close did not write the trailer
GzipCompress_noTrailer(data) == <<31>> \o data

\* 31 is the first byte of a gzip member (ID1)
GzipCompress(data) == <<31>> \o data \o <<Len(data)>>

GzipReadAll(data) ==
    IF data = <<>> THEN [data |-> <<>>, err |-> EOF]
    ELSE IF data[1] # 31 THEN [data |-> <<>>, err |-> ErrHeader]
    ELSE IF Len(data) < 2 THEN [data |-> <<>>, err |-> ErrUnexpectedEOF]
    ELSE IF data[Len(data)] # Len(data) - 2
         THEN [data |-> <<>>, err |-> ErrChecksum]
    ELSE [data |-> SubSeq(data, 2, Len(data) - 1), err |-> Nil]

\* 1 is the header of a final stored block (BFINAL = 1, BTYPE = 00)
FlateCompress(data) == <<1, Len(data)>> \o data

FlateReadAll(data) ==
    IF data = <<>> THEN [data |-> <<>>, err |-> ErrUnexpectedEOF]
    ELSE IF data[1] # 1 THEN [data |-> <<>>, err |-> CorruptInputError]
    ELSE IF Len(data) < 2 \/ data[2] > Len(data) - 2
         THEN [data |-> <<>>, err |-> ErrUnexpectedEOF]
    ELSE [data |-> SubSeq(data, 3, 2 + data[2]), err |-> Nil]

encode(e, data) ==
    IF is(e, EncodingIdentity) THEN [data |-> data, err |-> Nil]
    ELSE IF HasPrefix(e, EncodingGzip)
         THEN [data |-> GzipCompress(data), err |-> Nil]
    ELSE IF HasPrefix(e, EncodingDeflate)
         THEN [data |-> FlateCompress(data), err |-> Nil]
    ELSE [data |-> <<>>, err |-> ErrUnsupportedEncoding]

decode(e, data) ==
    IF is(e, EncodingIdentity) THEN [data |-> data, err |-> Nil]
    ELSE IF HasPrefix(e, EncodingGzip) THEN GzipReadAll(data)
    ELSE IF HasPrefix(e, EncodingDeflate) THEN FlateReadAll(data)
    ELSE [data |-> <<>>, err |-> ErrUnsupportedEncoding]

(***************************************************************************)
(* Control-header codec.  A wrp.Message is its Type, its header lines, its *)
(* payload and its transaction id; wrpValid is the verdict of the envelope *)
(* library's own validation (wrp.Message.Validate), which is outside this  *)
(* repository.                                                             *)
(***************************************************************************)
SimpleEventMessageType == 4
SimpleRequestResponseMessageType == 3

stream_id == <<"s", "t", "r", "e", "a", "m", "-", "i", "d">>
stream_packet_number ==
    <<"s", "t", "r", "e", "a", "m", "-", "p", "a", "c", "k", "e", "t", "-",
      "n", "u", "m", "b", "e", "r">>
stream_estimated_length ==
    <<"s", "t", "r", "e", "a", "m", "-", "e", "s", "t", "i", "m", "a", "t",
      "e", "d", "-", "t", "o", "t", "a", "l", "-", "l", "e", "n", "g", "t",
      "h">>
stream_final_packet ==
    <<"s", "t", "r", "e", "a", "m", "-", "f", "i", "n", "a", "l", "-", "p",
      "a", "c", "k", "e", "t">>
stream_encoding ==
    <<"s", "t", "r", "e", "a", "m", "-", "e", "n", "c", "o", "d", "i", "n",
      "g">>

headerKeys == {stream_id, stream_packet_number, stream_estimated_length,
               stream_final_packet, stream_encoding}

ErrEnvelope == [kind |-> "wrp.ErrMessageIsInvalid", message |-> <<>>]

\* the zero simpleStreamingMessage
ZeroSSM ==
    [Type |-> 0, Headers |-> <<>>, Payload |-> <<>>, TransactionUUID |-> <<>>,
     wrpValid |-> TRUE,
     StreamID |-> <<>>, StreamPacketNumber |-> 0,
     StreamEstimatedLength |-> 0, StreamFinalPacket |-> <<>>,
     StreamEncoding |-> <<>>]

\* mine is the key -> value map (a later line overwrites an earlier one),
\* others the lines that are not SSP headers, in their order
RECURSIVE split(_)
split(hdrs) ==
    IF hdrs = <<>> THEN [mine |-> <<>>, others |-> <<>>]
    ELSE
      LET r      == split(SubSeq(hdrs, 1, Len(hdrs) - 1))
          header == hdrs[Len(hdrs)]
          c      == Cut(header, ":")
          key    == ToLower(TrimSpace(c.before))
      IN  IF ~c.found \/ key \notin headerKeys
          THEN [mine |-> r.mine, others |-> Append(r.others, header)]
          ELSE [mine |-> [k \in DOMAIN r.mine \cup {key} |->
                             IF k = key THEN TrimSpace(c.after)
                             ELSE r.mine[k]],
                others |-> r.others]

isZero(s) ==
    IF s = <<>> THEN [zero |-> FALSE, s |-> s]
    ELSE IF s = <<"0">> THEN [zero |-> TRUE, s |-> s]
    ELSE [zero |-> TrimLeftZeros(s) = <<>>, s |-> TrimLeftZeros(s)]

\* strconv.ParseInt(s, 10, 64): an optional sign and one or more digits
ParseInt(s) ==
    LET signed == s # <<>> /\ s[1] \in {"+", "-"}
        body   == IF signed THEN Tail(s) ELSE s
    IN  IF body = <<>> \/ \E i \in 1..Len(body) : ~IsDigit(body[i])
        THEN [i |-> 0, err |-> ErrInvalidInput]
        ELSE [i |-> IF signed /\ s[1] = "-" THEN 0 - DigitsVal(body)
                    ELSE DigitsVal(body),
              err |-> Nil]

\* strconv.ParseUint(s, 10, 64): one or more digits, no sign
ParseUint(s) ==
    IF s = <<>> \/ \E i \in 1..Len(s) : ~IsDigit(s[i])
    THEN [i |-> 0, err |-> ErrInvalidInput]
    ELSE [i |-> DigitsVal(s), err |-> Nil]

\* simpleStreamingMessage.from: the five control fields out of the map
from(ssm, mine) ==
    LET has(k) == k \in DOMAIN mine
        packetNumber(z) ==
            IF z.zero THEN [i |-> 0, err |-> Nil]
            ELSE IF z.s = <<>> THEN [i |-> 0 - 1, err |-> Nil]
            ELSE ParseInt(z.s)
        estimatedLength(z) ==
            IF z.zero \/ z.s = <<>> THEN [i |-> 0, err |-> Nil]
            ELSE ParseUint(z.s)
        finalPacket(tmp, value) ==
            IF tmp = <<"e", "o", "f">> THEN tmp ELSE value
        set(pn, el, fp) ==
            IF pn.err # Nil \/ el.err # Nil
            THEN [ssm |-> ssm, err |-> ErrInvalidInput]
            ELSE [ssm |-> [ssm EXCEPT
                             !.StreamID = IF has(stream_id)
                                          THEN mine[stream_id] ELSE <<>>,
                             !.StreamPacketNumber = pn.i,
                             !.StreamEstimatedLength = el.i,
                             !.StreamFinalPacket = fp,
                             !.StreamEncoding = IF has(stream_encoding)
                                                THEN mine[stream_encoding]
                                                ELSE <<>>],
                  err |-> Nil]
    IN  set(IF has(stream_packet_number)
            THEN packetNumber(isZero(mine[stream_packet_number]))
            ELSE [i |-> 0 - 1, err |-> Nil],
            IF has(stream_estimated_length)
            THEN estimatedLength(isZero(mine[stream_estimated_length]))
            ELSE [i |-> 0, err |-> Nil],
            IF has(stream_final_packet)
            THEN finalPacket(ToLower(mine[stream_final_packet]),
                             mine[stream_final_packet])
            ELSE <<>>)

\* wrp.NoStandardValidation() and wrp.SkipStandardValidation(validators)
NoStandardValidation == "wrp.NoStandardValidation"
SkipStandardValidation(validators) == NoStandardValidation \in validators

\* Validate without its test of the packet number
Validate_anyPacketNumber(ssm, skip) ==
    IF ~ssm.wrpValid THEN ErrEnvelope
    ELSE IF skip THEN Nil
    ELSE IF \/ ssm.StreamID = <<>>
            \/ ~isValid(ssm.StreamEncoding)
         THEN ErrInvalidInput
    ELSE Nil

\* simpleStreamingMessage.Validate; skip is wrp.SkipStandardValidation
Validate(ssm, skip) ==
    IF ~ssm.wrpValid THEN ErrEnvelope
    ELSE IF skip THEN Nil
    ELSE IF \/ ssm.StreamID = <<>>
            \/ ssm.StreamPacketNumber < 0
            \/ ~isValid(ssm.StreamEncoding)
         THEN ErrInvalidInput
    ELSE Nil

\* simpleStreamingMessage.From
From(msg, skip) ==
    LET validated(f) ==
            IF f.err # Nil THEN f
            ELSE [ssm |-> f.ssm, err |-> Validate(f.ssm, skip)]
        parsed(s) ==
            validated(from([ZeroSSM EXCEPT
                              !.Type = msg.Type,
                              !.Headers = s.others,
                              !.Payload = msg.Payload,
                              !.TransactionUUID = msg.TransactionUUID,
                              !.wrpValid = msg.wrpValid],
                           s.mine))
    IN  parsed(split(msg.Headers))

\* "key: value"
Line(key, value) == key \o <<":", " ">> \o value

\* simpleStreamingMessage.headers
headers(ssm) ==
    (IF ssm.StreamID # <<>> THEN <<Line(stream_id, ssm.StreamID)>> ELSE <<>>)
    \o (IF ssm.StreamPacketNumber >= 0
        THEN <<Line(stream_packet_number, FormatInt(ssm.StreamPacketNumber))>>
        ELSE <<>>)
    \o (IF ssm.StreamEstimatedLength > 0
        THEN <<Line(stream_estimated_length,
                    FormatInt(ssm.StreamEstimatedLength))>>
        ELSE <<>>)
    \o (IF ssm.StreamFinalPacket # <<>>
        THEN <<Line(stream_final_packet,
                    IF ToLower(TrimSpace(ssm.StreamFinalPacket))
                         = <<"e", "o", "f">>
                    THEN <<"e", "o", "f">>
                    ELSE ssm.StreamFinalPacket)>>
        ELSE <<>>)
    \o (IF isValid(ssm.StreamEncoding) /\ ~is(ssm.StreamEncoding, EncodingIdentity)
        THEN <<Line(stream_encoding, string(ssm.StreamEncoding))>>
        ELSE <<>>)

\* To as it would be if it appended to the header lines already in the
\* message instead of replacing them
To_appends(ssm, skip) ==
    LET out(err) ==
            IF err # Nil THEN [ok |-> FALSE, msg |-> <<>>, err |-> err]
            ELSE [ok  |-> TRUE,
                  msg |-> [Type |-> ssm.Type,
                           Headers |-> ssm.Headers
                                          \o split(ssm.Headers).others
                                          \o headers(ssm),
                           Payload |-> ssm.Payload,
                           TransactionUUID |-> ssm.TransactionUUID,
                           wrpValid |-> ssm.wrpValid],
                  err |-> Nil]
    IN  out(Validate(ssm, skip))

\* simpleStreamingMessage.To
To(ssm, skip) ==
    LET out(err) ==
            IF err # Nil THEN [ok |-> FALSE, msg |-> <<>>, err |-> err]
            ELSE [ok  |-> TRUE,
                  msg |-> [Type |-> ssm.Type,
                           Headers |-> split(ssm.Headers).others
                                          \o headers(ssm),
                           Payload |-> ssm.Payload,
                           TransactionUUID |-> ssm.TransactionUUID,
                           wrpValid |-> ssm.wrpValid],
                  err |-> Nil]
    IN  out(Validate(ssm, skip))

\* Is, called on a *wrp.Message: any SSP header makes it an SSP message
Is(msg) == DOMAIN split(msg.Headers).mine # {}

(***************************************************************************)
(* The envelopes the environment hands to Assembler.ProcessWRP.            *)
(***************************************************************************)
Envelope(hdrs, payload) ==
    [Type |-> SimpleEventMessageType, Headers |-> hdrs, Payload |-> payload,
     TransactionUUID |-> <<>>, wrpValid |-> TRUE]

\* the fragment of stream "s" with packet number n, as it is on the wire
Fragment(n, fin, enc, payload) ==
    Envelope(<<Line(stream_id, <<"s">>),
               Line(stream_packet_number, FormatInt(n))>>
             \o (IF fin # <<>> THEN <<Line(stream_final_packet, fin)>>
                 ELSE <<>>)
             \o (IF enc # <<>> THEN <<Line(stream_encoding, enc)>> ELSE <<>>),
             payload)

\* the i-th byte of the stream's n-th fragment
Byte(n, i) == 40 + 10 * n + i
Bytes(n, len) == [i \in 1..len |-> Byte(n, i)]

\* the fragments sent with packet number n: plain and compressed data, with
\* and without a final-packet marker, empty, and damaged in transit
FragmentsOf(n) ==
    { Fragment(n, <<>>, <<>>, Bytes(n, 2)),
      Fragment(n, <<>>, EncodingGzip, GzipCompress(Bytes(n, 1))),
      Fragment(n, <<"E", "O", "F">>, EncodingDeflate,
               FlateCompress(Bytes(n, 2))),
      Fragment(n, <<"O", "o", "p", "s">>, EncodingIdentity, Bytes(n, 1)),
      Fragment(n, <<"e", "o", "f">>, <<>>, <<>>),
      Fragment(n, <<>>, EncodingGzip, <<>>),
      Fragment(n, <<>>, EncodingGzip, <<7>>),
      Fragment(n, <<>>, <<>>, <<99>>) }

Fragments == UNION {FragmentsOf(n) : n \in 0..MaxPkt}

\* envelopes that are not fragments: no SSP header, no packet number
Strays ==
    { Envelope(<<<<"x", ":", " ", "1">>>>, <<1>>),
      Envelope(<<Line(stream_id, <<"s">>)>>, <<1>>) }

Envelopes == Fragments \cup Strays

\* envelopes of another message kind, with and without SSP headers
OtherKind ==
    { [Envelope(h, <<1>>) EXCEPT !.Type = SimpleRequestResponseMessageType,
                                 !.TransactionUUID = <<"t">>] :
        h \in { <<<<"x", ":", " ", "1">>>>,
                <<Line(stream_id, <<"s">>),
                  Line(stream_packet_number, FormatInt(0))>> } }

\* the values a damaged numeric header arrives with
BadPacketNumbers == { <<>>, <<"-", "1">>, <<"x">>, <<"1", "x">> }
BadLengths == { <<"-", "5">>, <<"x">>, <<"1", ".", "5">> }

\* fragments of stream "s" with a packet number or an estimated length
\* that is not a number of the protocol, and one without a packet number
BadNumbers ==
    { Envelope(<<Line(stream_id, <<"s">>),
                 Line(stream_packet_number, v)>>, <<1>>) :
        v \in BadPacketNumbers }
    \cup
    { Envelope(<<Line(stream_id, <<"s">>),
                 Line(stream_packet_number, FormatInt(0)),
                 Line(stream_estimated_length, v)>>, <<1>>) :
        v \in BadLengths }
    \cup
    { Envelope(<<Line(stream_id, <<"s">>)>>, <<1>>) }

\* fragments whose numeric headers are written in the ways the codec
\* tolerates: leading zeros, an explicit sign, an empty length
OddNumbers ==
    { Envelope(<<Line(stream_id, <<"s">>),
                 Line(stream_packet_number, <<"0", "0", "1">>),
                 Line(stream_estimated_length, <<>>)>>, <<1>>),
      Envelope(<<Line(stream_id, <<"s">>),
                 Line(stream_packet_number, <<"+", "0">>),
                 Line(stream_estimated_length, <<"0", "7">>)>>, <<2>>) }

\* the fragment numbered 1 of stream "s", its stream-final-packet header
\* present with no value
EmptyMarker ==
    Envelope(<<Line(stream_id, <<"s">>),
               Line(stream_packet_number, FormatInt(1)),
               stream_final_packet \o <<":">>>>,
             Bytes(1, 1))

Known ==
    Envelopes \cup OtherKind \cup BadNumbers \cup OddNumbers
       \cup {EmptyMarker}

BufSizes == 1..MaxBuf

\* Is and From of every envelope of the environment, computed once
Parsed ==
    [m \in Known |-> [is |-> Is(m), from |-> From(m, FALSE),
                      fromUnchecked |-> From(m, TRUE)]]

(***************************************************************************)
(* Assembler.  The methods are operators from the Assembler's fields (a    *)
(* record) to its fields after the call and the values returned; the       *)
(* mutex makes each call one step.  A nil map and a nil pointer are the    *)
(* records NilPackets and NilDecoded.                                      *)
(***************************************************************************)
NilPackets == [isNil |-> TRUE, m |-> <<>>]
NilDecoded == [isNil |-> TRUE, number |-> 0, data |-> <<>>]

\* var a Assembler
ZeroAssembler ==
    [Validators |-> {}, closed |-> FALSE, current |-> 0, final |-> <<>>,
     offset |-> 0, packets |-> NilPackets, decoded |-> NilDecoded]

\* Is(&msg, a.Validators...) and ssp.From(&msg, a.Validators...)
IsSSP(msg) ==
    IF msg \in Known THEN Parsed[msg].is
    ELSE Is(msg)

FromEnvelope(msg, validators) ==
    LET looked(skip) ==
          IF msg \notin Known THEN From(msg, skip)
          ELSE IF skip THEN Parsed[msg].fromUnchecked
          ELSE Parsed[msg].from
    IN  looked(SkipStandardValidation(validators))

\* getPacket as it would be if every fragment were decoded under the encoding
\* of the newest fragment buffered
getPacket_sharedEncoding(a, n) ==
    IF a.packets.isNil
    THEN [a |-> a, msg |-> ZeroSSM, buf |-> <<>>, found |-> FALSE, err |-> Nil]
    ELSE IF n \notin DOMAIN a.packets.m
    THEN [a |-> a, msg |-> ZeroSSM, buf |-> <<>>, found |-> FALSE, err |-> Nil]
    ELSE IF ~a.decoded.isNil /\ a.decoded.number = n
    THEN [a |-> a, msg |-> a.packets.m[n], buf |-> a.decoded.data,
          found |-> TRUE, err |-> Nil]
    ELSE
      LET decodedAs(msg, d) ==
              IF d.err # Nil
              THEN [a |-> [a EXCEPT !.decoded = NilDecoded],
                    msg |-> ZeroSSM, buf |-> <<>>, found |-> TRUE,
                    err |-> d.err]
              ELSE [a |-> [a EXCEPT !.decoded =
                             [isNil |-> FALSE, number |-> n, data |-> d.data]],
                    msg |-> msg, buf |-> d.data, found |-> TRUE, err |-> Nil]
          decodeOf(msg, newest) ==
              decodedAs(msg, decode(newest.StreamEncoding, msg.Payload))
      IN  decodeOf(a.packets.m[n],
                   a.packets.m[CHOOSE k \in DOMAIN a.packets.m :
                                  \A j \in DOMAIN a.packets.m : j <= k])

\* getPacket as it would be if it did not keep what it decoded
getPacket_noCache(a, n) ==
    IF a.packets.isNil
    THEN [a |-> a, msg |-> ZeroSSM, buf |-> <<>>, found |-> FALSE, err |-> Nil]
    ELSE IF n \notin DOMAIN a.packets.m
    THEN [a |-> a, msg |-> ZeroSSM, buf |-> <<>>, found |-> FALSE, err |-> Nil]
    ELSE
      LET decodedAs(msg, d) ==
              IF d.err # Nil
              THEN [a |-> [a EXCEPT !.decoded = NilDecoded],
                    msg |-> ZeroSSM, buf |-> <<>>, found |-> TRUE,
                    err |-> d.err]
              ELSE [a |-> [a EXCEPT !.decoded = NilDecoded],
                    msg |-> msg, buf |-> d.data, found |-> TRUE, err |-> Nil]
          decodeOf(msg) ==
              decodedAs(msg, decode(msg.StreamEncoding, msg.Payload))
      IN  decodeOf(a.packets.m[n])

getPacket(a, n) ==
    IF a.packets.isNil
    THEN [a |-> a, msg |-> ZeroSSM, buf |-> <<>>, found |-> FALSE, err |-> Nil]
    ELSE IF n \notin DOMAIN a.packets.m
    THEN [a |-> a, msg |-> ZeroSSM, buf |-> <<>>, found |-> FALSE, err |-> Nil]
    ELSE IF ~a.decoded.isNil /\ a.decoded.number = n
    THEN [a |-> a, msg |-> a.packets.m[n], buf |-> a.decoded.data,
          found |-> TRUE, err |-> Nil]
    ELSE
      LET decodedAs(msg, d) ==
              IF d.err # Nil
              THEN [a |-> [a EXCEPT !.decoded = NilDecoded],
                    msg |-> ZeroSSM, buf |-> <<>>, found |-> TRUE,
                    err |-> d.err]
              ELSE [a |-> [a EXCEPT !.decoded =
                             [isNil |-> FALSE, number |-> n, data |-> d.data]],
                    msg |-> msg, buf |-> d.data, found |-> TRUE, err |-> Nil]
          decodeOf(msg) ==
              decodedAs(msg, decode(msg.StreamEncoding, msg.Payload))
      IN  decodeOf(a.packets.m[n])

\* getFinalState as it would be if it never reported the recorded reason
getFinalState_silent(a) == Nil

getFinalState(a) ==
    IF a.final = <<>> THEN Nil
    ELSE IF ToLower(a.final) = <<"e", "o", "f">> THEN EOF
    ELSE unexpectedEOF(a.final)

\* close as it would be if it also forgot the terminal reason
close_clearsFinal(a) ==
    [a EXCEPT !.packets = NilPackets, !.decoded = NilDecoded, !.closed = TRUE,
              !.final = <<>>]

\* close as it would be if it kept the decode cache
close_keepsDecoded(a) ==
    [a EXCEPT !.packets = NilPackets, !.closed = TRUE]

close(a) ==
    [a EXCEPT !.packets = NilPackets, !.decoded = NilDecoded, !.closed = TRUE]

\* copy(p, src) with len(p) = plen: the bytes copied
Copy(plen, src) == SubSeq(src, 1, IF plen < Len(src) THEN plen ELSE Len(src))

\* Read as it would be if it did not record the final-packet marker of the
\* fragment it reads
Read_dropsMarker(a, plen) ==
    LET done(a3, data, err) ==
            [a |-> IF err # Nil THEN close(a3) ELSE a3,
             n |-> Len(data), data |-> data, err |-> err]
        finish(a3, data) == done(a3, data, getFinalState(a3))
        next(a2, buf) ==
            IF a2.offset >= Len(buf)
            THEN [a2 EXCEPT
                    !.packets =
                       [isNil |-> FALSE,
                        m |-> [k \in DOMAIN a2.packets.m \ {a2.current} |->
                                 a2.packets.m[k]]],
                    !.current = a2.current + 1,
                    !.decoded = NilDecoded,
                    !.offset = 0]
            ELSE a2
        copied(a1, buf, data) ==
            finish(next([a1 EXCEPT !.offset = a1.offset + Len(data)], buf),
                   data)
        got(g) ==
            IF g.err # Nil
            THEN [a |-> close([g.a EXCEPT !.final = ErrorText(g.err)]),
                  n |-> 0, data |-> <<>>, err |-> g.err]
            ELSE IF ~g.found THEN finish(g.a, <<>>)
            ELSE copied(g.a, g.buf,
                        Copy(plen, SubSeq(g.buf, g.a.offset + 1, Len(g.buf))))
    IN  got(getPacket(a, a.current))

\* Read as it would be if it passed over a fragment that has not arrived
\* when later ones are buffered
Read_skipsMissing(a, plen) ==
    LET done(a3, data, err) ==
            [a |-> IF err # Nil THEN close(a3) ELSE a3,
             n |-> Len(data), data |-> data, err |-> err]
        finish(a3, data) == done(a3, data, getFinalState(a3))
        next(a2, buf) ==
            IF a2.offset >= Len(buf)
            THEN [a2 EXCEPT
                    !.packets =
                       [isNil |-> FALSE,
                        m |-> [k \in DOMAIN a2.packets.m \ {a2.current} |->
                                 a2.packets.m[k]]],
                    !.current = a2.current + 1,
                    !.decoded = NilDecoded,
                    !.offset = 0]
            ELSE a2
        copied(a1, buf, data) ==
            finish(next([a1 EXCEPT !.offset = a1.offset + Len(data)], buf),
                   data)
        marked(a0, packet) ==
            IF packet.StreamFinalPacket # <<>>
            THEN [a0 EXCEPT !.final = TrimSpace(packet.StreamFinalPacket)]
            ELSE a0
        got(g) ==
            IF g.err # Nil
            THEN [a |-> close([g.a EXCEPT !.final = ErrorText(g.err)]),
                  n |-> 0, data |-> <<>>, err |-> g.err]
            ELSE IF ~g.found /\ ~g.a.packets.isNil /\ g.a.final = <<>>
                    /\ DOMAIN g.a.packets.m # {}
                 THEN finish([g.a EXCEPT !.current = g.a.current + 1], <<>>)
            ELSE IF ~g.found THEN finish(g.a, <<>>)
            ELSE copied(marked(g.a, g.msg), g.buf,
                        Copy(plen, SubSeq(g.buf, g.a.offset + 1, Len(g.buf))))
    IN  got(getPacket(a, a.current))

\* Read as it would be if a fragment that does not decode left the Assembler
\* open
Read_decodeFailureStaysOpen(a, plen) ==
    LET done(a3, data, err) ==
            [a |-> IF err # Nil THEN close(a3) ELSE a3,
             n |-> Len(data), data |-> data, err |-> err]
        finish(a3, data) == done(a3, data, getFinalState(a3))
        next(a2, buf) ==
            IF a2.offset >= Len(buf)
            THEN [a2 EXCEPT
                    !.packets =
                       [isNil |-> FALSE,
                        m |-> [k \in DOMAIN a2.packets.m \ {a2.current} |->
                                 a2.packets.m[k]]],
                    !.current = a2.current + 1,
                    !.decoded = NilDecoded,
                    !.offset = 0]
            ELSE a2
        copied(a1, buf, data) ==
            finish(next([a1 EXCEPT !.offset = a1.offset + Len(data)], buf),
                   data)
        marked(a0, packet) ==
            IF packet.StreamFinalPacket # <<>>
            THEN [a0 EXCEPT !.final = TrimSpace(packet.StreamFinalPacket)]
            ELSE a0
        got(g) ==
            IF g.err # Nil
            THEN [a |-> g.a, n |-> 0, data |-> <<>>, err |-> g.err]
            ELSE IF ~g.found THEN finish(g.a, <<>>)
            ELSE copied(marked(g.a, g.msg), g.buf,
                        Copy(plen, SubSeq(g.buf, g.a.offset + 1, Len(g.buf))))
    IN  got(getPacket(a, a.current))

\* Read as it would be if it returned the bytes of the terminal fragment
\* without the terminal error, leaving the error to the next call
Read_errorOnNextCall(a, plen) ==
    LET \* err = a.getFinalState(); if err != nil { a.close() }; return n, err
        done(a3, data, err) ==
            IF data # <<>>
            THEN [a |-> a3, n |-> Len(data), data |-> data, err |-> Nil]
            ELSE [a |-> IF err # Nil THEN close(a3) ELSE a3,
                  n |-> Len(data), data |-> data, err |-> err]
        finish(a3, data) == done(a3, data, getFinalState(a3))
        \* if a.offset >= len(buf) { ... }
        next(a2, buf) ==
            IF a2.offset >= Len(buf)
            THEN [a2 EXCEPT
                    !.packets =
                       [isNil |-> FALSE,
                        m |-> [k \in DOMAIN a2.packets.m \ {a2.current} |->
                                 a2.packets.m[k]]],
                    !.current = a2.current + 1,
                    !.decoded = NilDecoded,
                    !.offset = 0]
            ELSE a2
        \* n := copy(p, buf[a.offset:]); a.offset += n
        copied(a1, buf, data) ==
            finish(next([a1 EXCEPT !.offset = a1.offset + Len(data)], buf),
                   data)
        \* if packet.StreamFinalPacket != "" { a.final = ... }
        marked(a0, packet) ==
            IF packet.StreamFinalPacket # <<>>
            THEN [a0 EXCEPT !.final = TrimSpace(packet.StreamFinalPacket)]
            ELSE a0
        \* packet, buf, found, err := a.getPacket(a.current)
        got(g) ==
            IF g.err # Nil
            THEN [a |-> close([g.a EXCEPT !.final = ErrorText(g.err)]),
                  n |-> 0, data |-> <<>>, err |-> g.err]
            ELSE IF ~g.found THEN finish(g.a, <<>>)
            ELSE copied(marked(g.a, g.msg), g.buf,
                        Copy(plen, SubSeq(g.buf, g.a.offset + 1, Len(g.buf))))
    IN  got(getPacket(a, a.current))

\* Assembler.Read(p) with len(p) = plen; data is p[:n] after the call
Read(a, plen) ==
    LET \* err = a.getFinalState(); if err != nil { a.close() }; return n, err
        done(a3, data, err) ==
            [a |-> IF err # Nil THEN close(a3) ELSE a3,
             n |-> Len(data), data |-> data, err |-> err]
        finish(a3, data) == done(a3, data, getFinalState(a3))
        \* if a.offset >= len(buf) { ... }
        next(a2, buf) ==
            IF a2.offset >= Len(buf)
            THEN [a2 EXCEPT
                    !.packets =
                       [isNil |-> FALSE,
                        m |-> [k \in DOMAIN a2.packets.m \ {a2.current} |->
                                 a2.packets.m[k]]],
                    !.current = a2.current + 1,
                    !.decoded = NilDecoded,
                    !.offset = 0]
            ELSE a2
        \* n := copy(p, buf[a.offset:]); a.offset += n
        copied(a1, buf, data) ==
            finish(next([a1 EXCEPT !.offset = a1.offset + Len(data)], buf),
                   data)
        \* if packet.StreamFinalPacket != "" { a.final = ... }
        marked(a0, packet) ==
            IF packet.StreamFinalPacket # <<>>
            THEN [a0 EXCEPT !.final = TrimSpace(packet.StreamFinalPacket)]
            ELSE a0
        \* packet, buf, found, err := a.getPacket(a.current)
        got(g) ==
            IF g.err # Nil
            THEN [a |-> close([g.a EXCEPT !.final = ErrorText(g.err)]),
                  n |-> 0, data |-> <<>>, err |-> g.err]
            ELSE IF ~g.found THEN finish(g.a, <<>>)
            ELSE copied(marked(g.a, g.msg), g.buf,
                        Copy(plen, SubSeq(g.buf, g.a.offset + 1, Len(g.buf))))
    IN  got(getPacket(a, a.current))

\* Assembler.Close
Close(a) == [a |-> close(a), err |-> Nil]

\* ProcessWRP as it would be if a fragment replaced the one buffered under
\* its packet number
ProcessWRP_overwrites(a, msg) ==
    LET make(b) ==
            IF b.packets.isNil
            THEN [b EXCEPT !.packets = [isNil |-> FALSE, m |-> <<>>]]
            ELSE b
        store(a1, ssp) ==
            [a |-> [a1 EXCEPT !.packets.m =
                      [k \in DOMAIN a1.packets.m
                              \cup {ssp.StreamPacketNumber} |->
                         IF k = ssp.StreamPacketNumber THEN ssp
                         ELSE a1.packets.m[k]]],
             err |-> Nil]
        ingest(f) ==
            IF f.err # Nil THEN [a |-> a, err |-> f.err]
            ELSE IF a.closed THEN [a |-> a, err |-> ErrClosed]
            ELSE IF a.current > f.ssm.StreamPacketNumber
                 THEN [a |-> a, err |-> Nil]
            ELSE store(make(a), f.ssm)
    IN  IF ~IsSSP(msg) THEN [a |-> a, err |-> ErrNotHandled]
        ELSE ingest(FromEnvelope(msg, a.Validators))

\* ProcessWRP as it would be if it checked the cursor before the closed flag
ProcessWRP_lateBeforeClosed(a, msg) ==
    LET make(b) ==
            IF b.packets.isNil
            THEN [b EXCEPT !.packets = [isNil |-> FALSE, m |-> <<>>]]
            ELSE b
        store(a1, ssp) ==
            IF ssp.StreamPacketNumber \in DOMAIN a1.packets.m
            THEN [a |-> a1, err |-> Nil]
            ELSE [a |-> [a1 EXCEPT !.packets.m =
                           [k \in DOMAIN a1.packets.m
                                   \cup {ssp.StreamPacketNumber} |->
                              IF k = ssp.StreamPacketNumber THEN ssp
                              ELSE a1.packets.m[k]]],
                  err |-> Nil]
        ingest(f) ==
            IF f.err # Nil THEN [a |-> a, err |-> f.err]
            ELSE IF a.current > f.ssm.StreamPacketNumber
                 THEN [a |-> a, err |-> Nil]
            ELSE IF a.closed THEN [a |-> a, err |-> ErrClosed]
            ELSE store(make(a), f.ssm)
    IN  IF ~IsSSP(msg) THEN [a |-> a, err |-> ErrNotHandled]
        ELSE ingest(FromEnvelope(msg, a.Validators))

\* ProcessWRP as it would be if it did not compare the packet number with
\* the cursor
ProcessWRP_buffersLate(a, msg) ==
    LET make(b) ==
            IF b.packets.isNil
            THEN [b EXCEPT !.packets = [isNil |-> FALSE, m |-> <<>>]]
            ELSE b
        store(a1, ssp) ==
            IF ssp.StreamPacketNumber \in DOMAIN a1.packets.m
            THEN [a |-> a1, err |-> Nil]
            ELSE [a |-> [a1 EXCEPT !.packets.m =
                           [k \in DOMAIN a1.packets.m
                                   \cup {ssp.StreamPacketNumber} |->
                              IF k = ssp.StreamPacketNumber THEN ssp
                              ELSE a1.packets.m[k]]],
                  err |-> Nil]
        ingest(f) ==
            IF f.err # Nil THEN [a |-> a, err |-> f.err]
            ELSE IF a.closed THEN [a |-> a, err |-> ErrClosed]
            ELSE store(make(a), f.ssm)
    IN  IF ~IsSSP(msg) THEN [a |-> a, err |-> ErrNotHandled]
        ELSE ingest(FromEnvelope(msg, a.Validators))

\* ProcessWRP as it would be if it did not look at the closed flag
ProcessWRP_ignoresClosed(a, msg) ==
    LET make(b) ==
            IF b.packets.isNil
            THEN [b EXCEPT !.packets = [isNil |-> FALSE, m |-> <<>>]]
            ELSE b
        store(a1, ssp) ==
            IF ssp.StreamPacketNumber \in DOMAIN a1.packets.m
            THEN [a |-> a1, err |-> Nil]
            ELSE [a |-> [a1 EXCEPT !.packets.m =
                           [k \in DOMAIN a1.packets.m
                                   \cup {ssp.StreamPacketNumber} |->
                              IF k = ssp.StreamPacketNumber THEN ssp
                              ELSE a1.packets.m[k]]],
                  err |-> Nil]
        ingest(f) ==
            IF f.err # Nil THEN [a |-> a, err |-> f.err]
            ELSE IF a.current > f.ssm.StreamPacketNumber
                 THEN [a |-> a, err |-> Nil]
            ELSE store(make(a), f.ssm)
    IN  IF ~IsSSP(msg) THEN [a |-> a, err |-> ErrNotHandled]
        ELSE ingest(FromEnvelope(msg, a.Validators))

\* ProcessWRP as it would be if it accepted only fragments of the stream
\* whose fragments it has buffered
ProcessWRP_oneStream(a, msg) ==
    LET make(b) ==
            IF b.packets.isNil
            THEN [b EXCEPT !.packets = [isNil |-> FALSE, m |-> <<>>]]
            ELSE b
        store(a1, ssp) ==
            IF ssp.StreamPacketNumber \in DOMAIN a1.packets.m
            THEN [a |-> a1, err |-> Nil]
            ELSE [a |-> [a1 EXCEPT !.packets.m =
                           [k \in DOMAIN a1.packets.m
                                   \cup {ssp.StreamPacketNumber} |->
                              IF k = ssp.StreamPacketNumber THEN ssp
                              ELSE a1.packets.m[k]]],
                  err |-> Nil]
        ingest(f) ==
            IF f.err # Nil THEN [a |-> a, err |-> f.err]
            ELSE IF a.closed THEN [a |-> a, err |-> ErrClosed]
            ELSE IF a.current > f.ssm.StreamPacketNumber
                 THEN [a |-> a, err |-> Nil]
            ELSE IF \E k \in DOMAIN a.packets.m :
                       a.packets.m[k].StreamID # f.ssm.StreamID
                 THEN [a |-> a, err |-> ErrNotHandled]
            ELSE store(make(a), f.ssm)
    IN  IF ~IsSSP(msg) THEN [a |-> a, err |-> ErrNotHandled]
        ELSE ingest(FromEnvelope(msg, a.Validators))

\* ProcessWRP as it would be if it buffered each fragment in the next free
\* slot after the cursor, whatever its packet number
ProcessWRP_arrivalOrder(a, msg) ==
    LET make(b) ==
            IF b.packets.isNil
            THEN [b EXCEPT !.packets = [isNil |-> FALSE, m |-> <<>>]]
            ELSE b
        store(a1, ssp, slot) ==
            [a |-> [a1 EXCEPT !.packets.m =
                      [k \in DOMAIN a1.packets.m \cup {slot} |->
                         IF k = slot THEN ssp ELSE a1.packets.m[k]]],
             err |-> Nil]
        ingest(f) ==
            IF f.err # Nil THEN [a |-> a, err |-> f.err]
            ELSE IF a.closed THEN [a |-> a, err |-> ErrClosed]
            ELSE IF a.current > f.ssm.StreamPacketNumber
                 THEN [a |-> a, err |-> Nil]
            ELSE store(make(a), f.ssm,
                       a.current + IF a.packets.isNil THEN 0
                                   ELSE Cardinality(DOMAIN a.packets.m))
    IN  IF ~IsSSP(msg) THEN [a |-> a, err |-> ErrNotHandled]
        ELSE ingest(FromEnvelope(msg, a.Validators))

\* Assembler.ProcessWRP
ProcessWRP(a, msg) ==
    LET \* if a.packets == nil { a.packets = make(...) }
        make(b) ==
            IF b.packets.isNil
            THEN [b EXCEPT !.packets = [isNil |-> FALSE, m |-> <<>>]]
            ELSE b
        \* if _, found := a.packets[n]; found { return nil }; a.packets[n] = &ssp
        store(a1, ssp) ==
            IF ssp.StreamPacketNumber \in DOMAIN a1.packets.m
            THEN [a |-> a1, err |-> Nil]
            ELSE [a |-> [a1 EXCEPT !.packets.m =
                           [k \in DOMAIN a1.packets.m
                                   \cup {ssp.StreamPacketNumber} |->
                              IF k = ssp.StreamPacketNumber THEN ssp
                              ELSE a1.packets.m[k]]],
                  err |-> Nil]
        \* f is what ssp.From(&msg) returned
        ingest(f) ==
            IF f.err # Nil THEN [a |-> a, err |-> f.err]
            ELSE IF a.closed THEN [a |-> a, err |-> ErrClosed]
            ELSE IF a.current > f.ssm.StreamPacketNumber
                 THEN [a |-> a, err |-> Nil]
            ELSE store(make(a), f.ssm)
    IN  IF ~IsSSP(msg) THEN [a |-> a, err |-> ErrNotHandled]
        ELSE ingest(FromEnvelope(msg, a.Validators))

(***************************************************************************)
(* Packetizer.  The byte source (an io.Reader) is the bytes it has left,   *)
(* the error it reports when they run out, whether it reports that error   *)
(* together with its last bytes (eager) or on the read after them, and the *)
(* number of reads it first answers with (0, nil).                         *)
(***************************************************************************)
ErrCanceled ==
    [kind |-> "context.Canceled",
     message |-> <<"c", "o", "n", "t", "e", "x", "t", " ", "c", "a", "n", "c",
                   "e", "l", "e", "d">>]
ErrTxGen == [kind |-> "txGen", message |-> <<"t", "x">>]

DefaultMaxPacketSize == 65536

Source(data, end, eager, stalls) ==
    [data |-> data, end |-> end, eager |-> eager, stalls |-> stalls]

NilSource == [data |-> <<>>, end |-> Nil, eager |-> FALSE, stalls |-> 0]

\* p.stream.Read(buf) with len(buf) = max
SourceRead(r, max) ==
    IF r.stalls > 0
    THEN [r |-> [r EXCEPT !.stalls = r.stalls - 1], n |-> 0, buf |-> <<>>,
          err |-> Nil]
    ELSE IF r.data = <<>>
    THEN [r |-> r, n |-> 0, buf |-> <<>>, err |-> r.end]
    ELSE
      LET k == IF max < Len(r.data) THEN max ELSE Len(r.data)
      IN  [r   |-> [r EXCEPT !.data = SubSeq(r.data, k + 1, Len(r.data))],
           n   |-> k,
           buf |-> SubSeq(r.data, 1, k),
           err |-> IF k = Len(r.data) /\ r.eager THEN r.end ELSE Nil]

\* regexp ^[A-Za-z0-9_-]+$
IsIDChar(c) ==
    \/ \E i \in 1..26 : Upper[i] = c \/ Lower[i] = c
    \/ IsDigit(c)
    \/ c \in {"_", "-"}

\* var file Packetizer
ZeroPacketizer ==
    [stream |-> NilSource, id |-> <<>>, currentPacketNumber |-> 0,
     maxPacketSize |-> 0, encoding |-> <<>>, txGen |-> FALSE,
     estimatedSize |-> 0, finalPacket |-> <<>>, outcome |-> Nil]

\* New as it would be if finalize did not check the encoding
New_anyEncoding(id, hasReader, r, size, length, e, txGen) ==
    LET file == [ZeroPacketizer EXCEPT
                    !.stream = r, !.id = id,
                    !.maxPacketSize = IF size < 1 THEN DefaultMaxPacketSize
                                      ELSE size,
                    !.encoding = e, !.txGen = txGen,
                    !.estimatedSize = IF length < 1 THEN 0 ELSE length]
    IN  IF \/ ~hasReader
           \/ id = <<>>
           \/ \E i \in 1..Len(id) : ~IsIDChar(id[i])
        THEN [ok |-> FALSE, p |-> file, err |-> ErrInvalidInput]
        ELSE [ok |-> TRUE, p |-> file, err |-> Nil]

\* New(ID(id), Reader(r), MaxPacketSize(size), EstimatedLength(length),
\*     WithEncoding(e), WithUpdateTransactionUUID(txGen)); hasReader is
\* r != nil, txGen is whether a generator is configured
New(id, hasReader, r, size, length, e, txGen) ==
    LET file == [ZeroPacketizer EXCEPT
                    !.stream = r, !.id = id,
                    !.maxPacketSize = IF size < 1 THEN DefaultMaxPacketSize
                                      ELSE size,
                    !.encoding = e, !.txGen = txGen,
                    !.estimatedSize = IF length < 1 THEN 0 ELSE length]
    IN  IF \/ ~hasReader
           \/ id = <<>>
           \/ \E i \in 1..Len(id) : ~IsIDChar(id[i])
           \/ ~isValid(e)
        THEN [ok |-> FALSE, p |-> file, err |-> ErrInvalidInput]
        ELSE [ok |-> TRUE, p |-> file, err |-> Nil]

\* A context.Context as one call of Next sees it: done, it was cancelled
\* before the call; otherwise cancelAfter is the number of reads of the
\* source after which it is cancelled while the call is in its read loop,
\* and -1 if it is not cancelled during the call.
Context(done, cancelAfter) == [done |-> done, cancelAfter |-> cancelAfter]

\* Done as it would be if the context were looked at before the first read
\* of a call only
Done_beforeFirstRead(ctx, reads) ==
    reads = 0 /\ (ctx.done \/ ctx.cancelAfter = 0)

\* case <-ctx.Done() is ready at the select that follows `reads` reads
Done(ctx, reads) ==
    ctx.done \/ (ctx.cancelAfter >= 0 /\ reads >= ctx.cancelAfter)

\* the read loop of nextRaw: for n == 0 && err == nil { select ... }
RECURSIVE ReadLoop(_, _, _, _)
ReadLoop(r, max, ctx, reads) ==
    LET looped(x) ==
            IF x.n = 0 /\ x.err = Nil
            THEN ReadLoop(x.r, max, ctx, reads + 1)
            ELSE [r |-> x.r, n |-> x.n, buf |-> x.buf, err |-> x.err,
                  reads |-> reads + 1]
    IN  IF Done(ctx, reads)
        THEN [r |-> r, n |-> 0, buf |-> <<>>, err |-> ErrCanceled,
              reads |-> reads]
        ELSE looped(SourceRead(r, max))

\* nextRaw as it would be if a cancelled Packetizer went through its read
\* loop again
nextRaw_afterCancel(p, ctx, msg, tx) ==
    LET \* p.currentPacketNumber++, the generator, and return &out, p.outcome
        result(p3, out, reads) ==
            IF p.txGen /\ tx.err # Nil
            THEN [p |-> p3, isNil |-> TRUE, ssm |-> ZeroSSM, err |-> tx.err,
                  reads |-> reads]
            ELSE [p |-> p3, isNil |-> FALSE, ssm |-> out, err |-> p3.outcome,
                  reads |-> reads]
        \* out.Message = msg[0] and the five control fields
        packet(p2, payload) ==
            [ZeroSSM EXCEPT
               !.Type = msg.Type,
               !.Headers = msg.Headers,
               !.wrpValid = msg.wrpValid,
               !.TransactionUUID = IF p.txGen THEN tx.id
                                   ELSE msg.TransactionUUID,
               !.Payload = payload,
               !.StreamID = p2.id,
               !.StreamPacketNumber = p2.currentPacketNumber,
               !.StreamEstimatedLength = p2.estimatedSize,
               !.StreamFinalPacket = p2.finalPacket,
               !.StreamEncoding = p2.encoding]
        built(p2, payload, reads) ==
            result([p2 EXCEPT !.currentPacketNumber = @ + 1],
                   packet(p2, payload), reads)
        \* if n > 0 { out.Payload, err = p.encoding.encode(buf[:n]) ... }
        encoded(p1, enc, reads) ==
            built(IF enc.err # Nil
                  THEN [p1 EXCEPT !.finalPacket = ErrorText(enc.err),
                                  !.outcome = enc.err]
                  ELSE p1,
                  enc.data, reads)
        \* the read loop, and if err != nil { p.finalPacket = ...; p.outcome = err }
        read(l) ==
            encoded(IF l.err # Nil
                    THEN [p EXCEPT !.stream = l.r,
                                   !.finalPacket = IF ErrorIs(l.err, EOF)
                                                   THEN <<"E", "O", "F">>
                                                   ELSE ErrorText(l.err),
                                   !.outcome = l.err]
                    ELSE [p EXCEPT !.stream = l.r],
                    IF l.n > 0 THEN encode(p.encoding, l.buf)
                    ELSE [data |-> <<>>, err |-> Nil],
                    l.reads)
    IN  IF p.outcome # Nil /\ p.outcome # ErrCanceled
        THEN [p |-> p, isNil |-> TRUE, ssm |-> ZeroSSM, err |-> p.outcome,
              reads |-> 0]
        ELSE read(ReadLoop(p.stream, p.maxPacketSize, ctx, 0))

\* nextRaw as it would be if a failure of encode left the outcome of the
\* read in place
nextRaw_keepsReadOutcome(p, ctx, msg, tx) ==
    LET \* p.currentPacketNumber++, the generator, and return &out, p.outcome
        result(p3, out, reads) ==
            IF p.txGen /\ tx.err # Nil
            THEN [p |-> p3, isNil |-> TRUE, ssm |-> ZeroSSM, err |-> tx.err,
                  reads |-> reads]
            ELSE [p |-> p3, isNil |-> FALSE, ssm |-> out, err |-> p3.outcome,
                  reads |-> reads]
        \* out.Message = msg[0] and the five control fields
        packet(p2, payload) ==
            [ZeroSSM EXCEPT
               !.Type = msg.Type,
               !.Headers = msg.Headers,
               !.wrpValid = msg.wrpValid,
               !.TransactionUUID = IF p.txGen THEN tx.id
                                   ELSE msg.TransactionUUID,
               !.Payload = payload,
               !.StreamID = p2.id,
               !.StreamPacketNumber = p2.currentPacketNumber,
               !.StreamEstimatedLength = p2.estimatedSize,
               !.StreamFinalPacket = p2.finalPacket,
               !.StreamEncoding = p2.encoding]
        built(p2, payload, reads) ==
            result([p2 EXCEPT !.currentPacketNumber = @ + 1],
                   packet(p2, payload), reads)
        \* if n > 0 { out.Payload, err = p.encoding.encode(buf[:n]) ... }
        encoded(p1, enc, reads) ==
            built(IF enc.err # Nil
                  THEN [p1 EXCEPT !.finalPacket = ErrorText(enc.err)]
                  ELSE p1,
                  enc.data, reads)
        \* the read loop, and if err != nil { p.finalPacket = ...; p.outcome = err }
        read(l) ==
            encoded(IF l.err # Nil
                    THEN [p EXCEPT !.stream = l.r,
                                   !.finalPacket = IF ErrorIs(l.err, EOF)
                                                   THEN <<"E", "O", "F">>
                                                   ELSE ErrorText(l.err),
                                   !.outcome = l.err]
                    ELSE [p EXCEPT !.stream = l.r],
                    IF l.n > 0 THEN encode(p.encoding, l.buf)
                    ELSE [data |-> <<>>, err |-> Nil],
                    l.reads)
    IN  IF p.outcome # Nil
        THEN [p |-> p, isNil |-> TRUE, ssm |-> ZeroSSM, err |-> p.outcome,
              reads |-> 0]
        ELSE read(ReadLoop(p.stream, p.maxPacketSize, ctx, 0))

\* Packetizer.nextRaw(ctx, msg); tx is what the generator returns if called
nextRaw(p, ctx, msg, tx) ==
    LET \* p.currentPacketNumber++, the generator, and return &out, p.outcome
        result(p3, out, reads) ==
            IF p.txGen /\ tx.err # Nil
            THEN [p |-> p3, isNil |-> TRUE, ssm |-> ZeroSSM, err |-> tx.err,
                  reads |-> reads]
            ELSE [p |-> p3, isNil |-> FALSE, ssm |-> out, err |-> p3.outcome,
                  reads |-> reads]
        \* out.Message = msg[0] and the five control fields
        packet(p2, payload) ==
            [ZeroSSM EXCEPT
               !.Type = msg.Type,
               !.Headers = msg.Headers,
               !.wrpValid = msg.wrpValid,
               !.TransactionUUID = IF p.txGen THEN tx.id
                                   ELSE msg.TransactionUUID,
               !.Payload = payload,
               !.StreamID = p2.id,
               !.StreamPacketNumber = p2.currentPacketNumber,
               !.StreamEstimatedLength = p2.estimatedSize,
               !.StreamFinalPacket = p2.finalPacket,
               !.StreamEncoding = p2.encoding]
        built(p2, payload, reads) ==
            result([p2 EXCEPT !.currentPacketNumber = @ + 1],
                   packet(p2, payload), reads)
        \* if n > 0 { out.Payload, err = p.encoding.encode(buf[:n]) ... }
        encoded(p1, enc, reads) ==
            built(IF enc.err # Nil
                  THEN [p1 EXCEPT !.finalPacket = ErrorText(enc.err),
                                  !.outcome = enc.err]
                  ELSE p1,
                  enc.data, reads)
        \* the read loop, and if err != nil { p.finalPacket = ...; p.outcome = err }
        read(l) ==
            encoded(IF l.err # Nil
                    THEN [p EXCEPT !.stream = l.r,
                                   !.finalPacket = IF ErrorIs(l.err, EOF)
                                                   THEN <<"E", "O", "F">>
                                                   ELSE ErrorText(l.err),
                                   !.outcome = l.err]
                    ELSE [p EXCEPT !.stream = l.r],
                    IF l.n > 0 THEN encode(p.encoding, l.buf)
                    ELSE [data |-> <<>>, err |-> Nil],
                    l.reads)
    IN  IF p.outcome # Nil
        THEN [p |-> p, isNil |-> TRUE, ssm |-> ZeroSSM, err |-> p.outcome,
              reads |-> 0]
        ELSE read(ReadLoop(p.stream, p.maxPacketSize, ctx, 0))

\* Next as it would be if it reported the end of the stream for every call
\* made after the last fragment
PacketizerNext_alwaysEOF(p, ctx, msg, tx) ==
    LET converted(x, t) ==
            IF t.err # Nil
            THEN [p |-> x.p, isNil |-> TRUE, msg |-> <<>>, err |-> t.err,
                  reads |-> x.reads]
            ELSE [p |-> x.p, isNil |-> FALSE, msg |-> t.msg, err |-> x.err,
                  reads |-> x.reads]
        raw(x) ==
            IF x.isNil
            THEN [p |-> x.p, isNil |-> TRUE, msg |-> <<>>,
                  err |-> IF p.outcome # Nil THEN EOF ELSE x.err,
                  reads |-> x.reads]
            ELSE converted(x, To(x.ssm, FALSE))
    IN  raw(nextRaw(p, ctx, msg, tx))

\* Packetizer.Next(ctx, msg), called with no validator
PacketizerNext(p, ctx, msg, tx) ==
    LET converted(x, t) ==
            IF t.err # Nil
            THEN [p |-> x.p, isNil |-> TRUE, msg |-> <<>>, err |-> t.err,
                  reads |-> x.reads]
            ELSE [p |-> x.p, isNil |-> FALSE, msg |-> t.msg, err |-> x.err,
                  reads |-> x.reads]
        raw(x) ==
            IF x.isNil
            THEN [p |-> x.p, isNil |-> TRUE, msg |-> <<>>, err |-> x.err,
                  reads |-> x.reads]
            ELSE converted(x, To(x.ssm, FALSE))
    IN  raw(nextRaw(p, ctx, msg, tx))

\* the invocations of p.txGen in nextRaw as they would be if the generator
\* were reached by every call
txGenCalls_everyCall(p) == IF p.txGen THEN 1 ELSE 0

\* how many times one call of nextRaw invokes p.txGen: a terminal
\* Packetizer returns before it, every other path reaches it once
txGenCalls(p) == IF p.outcome = Nil /\ p.txGen THEN 1 ELSE 0

(***************************************************************************)
(* State.  The first six variables are the Assembler's fields; p is the    *)
(* Packetizer's fields, ctxDone whether the context handed to Next has     *)
(* been cancelled, wire the envelopes Next has returned and ProcessWRP has *)
(* not yet been given, input the bytes the Packetizer's source was created *)
(* with.  frags, arrived and bufSize describe a run in which a fixed set   *)
(* of fragments arrives in any order: the fragment of each packet number,  *)
(* the packet numbers handed to ProcessWRP so far, in the order of the     *)
(* calls, and the consumer's buffer size.  The others record what the      *)
(* callers                                                                 *)
(* have seen: the bytes Read has returned so far, the decoded bytes of the *)
(* fragments Read has reached at the cursor, the first terminal outcome    *)
(* Read returned, and the last call with its results.                      *)
(***************************************************************************)
VARIABLES Validators, closed, current, final, offset, packets, decoded,
          p, ctxDone, wire, input,
          frags, arrived, bufSize,
          mutex, threads, serial, args,
          delivered, reached, termOutcome, last

asmVars == <<Validators, closed, current, final, offset, packets, decoded>>
pktVars == <<p, ctxDone, wire, input>>
runVars == <<frags, arrived, bufSize>>
lockVars == <<mutex, threads, serial>>
vars == <<Validators, closed, current, final, offset, packets, decoded,
          p, ctxDone, wire, input, frags, arrived, bufSize,
          mutex, threads, serial, args, delivered, reached, termOutcome, last>>

Assembler ==
    [Validators |-> Validators, closed |-> closed, current |-> current,
     final |-> final, offset |-> offset, packets |-> packets,
     decoded |-> decoded]

SetAssembler(a) ==
    /\ Validators' = a.Validators
    /\ closed' = a.closed
    /\ current' = a.current
    /\ final' = a.final
    /\ offset' = a.offset
    /\ packets' = a.packets
    /\ decoded' = a.decoded

\* the outcomes getFinalState hands to Read's caller
IsTerminalOutcome(e) == e.kind \in {"io.EOF", "unexpectedEOF"}

NoCall ==
    [op |-> "none", n |-> 0, err |-> Nil, found |-> FALSE, fin |-> <<>>,
     left |-> 0, failed |-> FALSE, dup |-> FALSE, wellFormed |-> FALSE,
     after |-> FALSE, wasClosed |-> FALSE, held |-> 0, isNil |-> FALSE,
     reads |-> 0, number |-> 0, txFailed |-> FALSE, cancelAt |-> 0 - 1,
     stalls |-> 0]

InitAssembler ==
    /\ Validators = ZeroAssembler.Validators
    /\ closed = ZeroAssembler.closed
    /\ current = ZeroAssembler.current
    /\ final = ZeroAssembler.final
    /\ offset = ZeroAssembler.offset
    /\ packets = ZeroAssembler.packets
    /\ decoded = ZeroAssembler.decoded

InitObserved ==
    /\ delivered = <<>>
    /\ reached = <<>>
    /\ termOutcome = Nil
    /\ last = NoCall

\* no Packetizer
InitNoPacketizer ==
    /\ p = ZeroPacketizer
    /\ ctxDone = FALSE
    /\ wire = <<>>
    /\ input = <<>>

\* no fixed set of fragments
InitNoRun ==
    /\ frags = <<>>
    /\ arrived = <<>>
    /\ bufSize = 0

\* a.m when no call holds it
Unlocked == <<"unlocked", 0>>

\* no call is split into its steps
InitNoThreads ==
    /\ mutex = Unlocked
    /\ threads = <<>>
    /\ serial = ZeroAssembler

\* no function is applied to arguments of its own
InitNoArgs == args = <<>>

\* the number of fragments buffered
Held(a) == IF a.packets.isNil THEN 0 ELSE Cardinality(DOMAIN a.packets.m)

\* Assembler.Read is called with a buffer of plen bytes
ReadCall(plen) ==
    LET seen(g, r) ==
          /\ SetAssembler(r.a)
          /\ delivered' = delivered \o r.data
          /\ reached' = IF g.found /\ g.err = Nil /\ offset = 0
                        THEN reached \o g.buf ELSE reached
          /\ termOutcome' = IF termOutcome = Nil /\ IsTerminalOutcome(r.err)
                            THEN r.err ELSE termOutcome
          /\ last' = [NoCall EXCEPT
                        !.op = "Read", !.n = r.n, !.err = r.err,
                        !.found = g.found,
                        !.fin = IF g.found /\ g.err = Nil
                                THEN g.msg.StreamFinalPacket ELSE <<>>,
                        !.left = IF g.found /\ g.err = Nil
                                 THEN Len(g.buf) - offset - r.n ELSE 0,
                        !.failed = g.err # Nil,
                        !.after = termOutcome # Nil,
                        !.wasClosed = closed,
                        !.held = Held(Assembler)]
    IN  seen(getPacket(Assembler, current), Read(Assembler, plen))

\* Assembler.ProcessWRP is called with the envelope msg
ProcessWRPCall(msg) ==
    LET seen(r, f, wf) ==
          /\ SetAssembler(r.a)
          /\ UNCHANGED <<delivered, reached, termOutcome>>
          /\ last' = [NoCall EXCEPT
                        !.op = "ProcessWRP", !.err = r.err,
                        !.wellFormed = wf,
                        !.dup = /\ wf
                                /\ \/ f.ssm.StreamPacketNumber < current
                                   \/ /\ ~packets.isNil
                                      /\ f.ssm.StreamPacketNumber
                                           \in DOMAIN packets.m,
                        !.after = termOutcome # Nil,
                        !.wasClosed = closed,
                        !.held = Held(Assembler)]
        parsed(f) == seen(ProcessWRP(Assembler, msg), f, IsSSP(msg) /\ f.err = Nil)
    IN  parsed(FromEnvelope(msg, Validators))

(***************************************************************************)
(* Spec: one Assembler, with producers that call ProcessWRP with any       *)
(* envelope in any order, a consumer that calls Read with any buffer size, *)
(* and Close called at any time.                                           *)
(***************************************************************************)
Init ==
    /\ InitAssembler /\ InitObserved /\ InitNoThreads /\ InitNoArgs
    /\ InitNoPacketizer /\ InitNoRun

DoRead(plen) == ReadCall(plen) /\ UNCHANGED <<pktVars, runVars, lockVars, args>>

DoProcessWRP(msg) ==
    ProcessWRPCall(msg) /\ UNCHANGED <<pktVars, runVars, lockVars, args>>

DoClose ==
    /\ LET seen(r) ==
             /\ SetAssembler(r.a)
             /\ last' = [NoCall EXCEPT !.op = "Close", !.err = r.err,
                                       !.after = termOutcome # Nil,
                                       !.wasClosed = closed,
                                       !.held = Held(Assembler)]
       IN  seen(Close(Assembler))
    /\ UNCHANGED <<delivered, reached, termOutcome,
                   pktVars, runVars, lockVars, args>>

Next ==
    \/ \E plen \in BufSizes : DoRead(plen)
    \/ \E msg \in Envelopes : DoProcessWRP(msg)
    \/ DoClose

Spec == Init /\ [][Next]_vars

(***************************************************************************)
(* SpecE2E: a Packetizer over a byte source feeds an Assembler.  The       *)
(* sender calls Next with a template envelope and hands each envelope      *)
(* returned to ProcessWRP, in the order of emission; once the Packetizer   *)
(* has ended and every envelope has been handed over, the consumer calls   *)
(* Read.                                                                   *)
(***************************************************************************)
\* the byte streams given to the Packetizer: distinct bytes, so that a lost,
\* repeated or misplaced byte shows
Inputs == {[i \in 1..n |-> i] : n \in 0..MaxData}

Encodings == {<<>>, EncodingIdentity, EncodingGzip, EncodingDeflate}

\* the envelope the sender passes to Next: a simple event with one header
\* of its own
Template ==
    [Type |-> SimpleEventMessageType,
     Headers |-> <<<<"x", ":", " ", "1">>>>,
     Payload |-> <<>>, TransactionUUID |-> <<"t">>, wrpValid |-> TRUE]

InitE2E ==
    /\ InitAssembler /\ InitObserved /\ InitNoThreads /\ InitNoArgs
    /\ InitNoRun
    /\ input \in Inputs
    /\ \E size \in 0..MaxPacketSize, e \in Encodings, eager \in BOOLEAN,
          end \in {EOF, ErrUnexpectedEOF} :
          p = New(<<"s">>, TRUE, Source(input, end, eager, 0), size,
                  Len(input), e, FALSE).p
    /\ ctxDone = FALSE
    /\ wire = <<>>

\* the sender calls Next
DoNext ==
    /\ LET seen(r) ==
             /\ p' = r.p
             /\ wire' = IF r.isNil THEN wire ELSE Append(wire, r.msg)
             /\ last' = [NoCall EXCEPT !.op = "Next", !.err = r.err,
                                       !.isNil = r.isNil, !.reads = r.reads,
                                       !.after = p.outcome # Nil]
       IN  seen(PacketizerNext(p, Context(ctxDone, 0 - 1), Template,
                               [id |-> <<>>, err |-> Nil]))
    /\ UNCHANGED <<asmVars, ctxDone, input, runVars, lockVars, args,
                   delivered, reached, termOutcome>>

\* the sender hands the oldest envelope to ProcessWRP
DoDeliver ==
    /\ wire # <<>>
    /\ ProcessWRPCall(Head(wire))
    /\ wire' = Tail(wire)
    /\ UNCHANGED <<p, ctxDone, input, runVars, lockVars, args>>

\* the context is cancelled
DoCancel ==
    /\ ~ctxDone
    /\ ctxDone' = TRUE
    /\ UNCHANGED <<asmVars, p, wire, input, runVars, lockVars, args,
                   delivered, reached, termOutcome, last>>

\* the consumer calls Read
DoDrain(plen) ==
    /\ p.outcome # Nil
    /\ wire = <<>>
    /\ ReadCall(plen)
    /\ UNCHANGED <<pktVars, runVars, lockVars, args>>

NextE2E ==
    \/ DoNext
    \/ DoDeliver
    \/ DoCancel
    \/ \E plen \in BufSizes : DoDrain(plen)

SpecE2E == InitE2E /\ [][NextE2E]_vars

(***************************************************************************)
(* SpecPacketizer: one Packetizer over a byte source that may stall (read  *)
(* zero bytes without error), hand its last bytes over with or before its  *)
(* final error, and end cleanly or not.  The sender calls Next with a      *)
(* template the envelope library accepts or rejects; the transaction-id    *)
(* generator, when one is configured, succeeds or fails at each call; the  *)
(* context is cancelled between two calls or while a call is in its read   *)
(* loop.  wire keeps every envelope Next has returned.                     *)
(***************************************************************************)
\* a template wrp.Message.Validate rejects
BadTemplate == [Template EXCEPT !.wrpValid = FALSE]

Templates == {Template, BadTemplate}

\* what the generator returns: a fresh id, or an error
TxOutcomes == { [id |-> <<"u">>, err |-> Nil], [id |-> <<>>, err |-> ErrTxGen] }

InitPacketizer ==
    /\ InitAssembler /\ InitObserved /\ InitNoThreads /\ InitNoArgs
    /\ InitNoRun
    /\ input \in Inputs
    /\ \E size \in 0..MaxPacketSize, e \in {EncodingIdentity, EncodingGzip},
          eager \in BOOLEAN,
          end \in {EOF, ErrUnexpectedEOF}, stalls \in 0..MaxStalls,
          txGen \in BOOLEAN :
          p = New(<<"s">>, TRUE, Source(input, end, eager, stalls), size,
                  Len(input), e, txGen).p
    /\ ctxDone = FALSE
    /\ wire = <<>>

\* the sender calls Next with the template msg; tx is what the generator
\* returns if it is called, cancelAfter the point of the read loop at which
\* the context is cancelled
DoNextWith(msg, tx, cancelAfter) ==
    /\ LET seen(r) ==
             /\ p' = r.p
             /\ wire' = IF r.isNil THEN wire ELSE Append(wire, r.msg)
             /\ ctxDone' = (ctxDone \/ r.p.outcome = ErrCanceled)
             /\ last' = [NoCall EXCEPT
                           !.op = "Next", !.err = r.err,
                           !.isNil = r.isNil, !.reads = r.reads,
                           !.after = p.outcome # Nil,
                           !.number = p.currentPacketNumber,
                           !.txFailed = p.txGen /\ tx.err # Nil,
                           !.cancelAt = IF ctxDone THEN 0 ELSE cancelAfter,
                           !.stalls = p.stream.stalls]
       IN  seen(PacketizerNext(p, Context(ctxDone, cancelAfter), msg, tx))
    /\ UNCHANGED <<asmVars, input, runVars, lockVars, args,
                   delivered, reached, termOutcome>>

NextPacketizer ==
    \/ \E msg \in Templates, tx \in TxOutcomes, cancelAfter \in -1..MaxStalls :
          DoNextWith(msg, tx, cancelAfter)
    \/ DoCancel

SpecPacketizer == InitPacketizer /\ [][NextPacketizer]_vars

(***************************************************************************)
(* SpecReorder: the fragments of one stream, one per packet number, are    *)
(* handed to ProcessWRP in any order, each once, while the consumer calls  *)
(* Read with a buffer of one fixed size.                                   *)
(***************************************************************************)
\* the fragment kinds of a stream: data, the two kinds of final packet (one
\* of them compressed), and a fragment damaged in transit
Kinds == {"plain", "deflate-eof", "plain-oops", "gzip-corrupt"}

StreamFragment(n, kind) ==
    CASE kind = "plain" -> Fragment(n, <<>>, <<>>, Bytes(n, 2))
      [] kind = "deflate-eof" ->
           Fragment(n, <<"E", "O", "F">>, EncodingDeflate,
                    FlateCompress(Bytes(n, 2)))
      [] kind = "plain-oops" ->
           Fragment(n, <<"O", "o", "p", "s">>, EncodingIdentity, Bytes(n, 1))
      [] kind = "gzip-corrupt" -> Fragment(n, <<>>, EncodingGzip, <<7>>)

\* the packet numbers not yet handed to ProcessWRP
Pending == DOMAIN frags \ {arrived[i] : i \in 1..Len(arrived)}

InitReorder ==
    /\ InitAssembler /\ InitObserved /\ InitNoThreads /\ InitNoArgs
    /\ InitNoPacketizer
    /\ \E S \in SUBSET (0..MaxPkt) \ {{}} :
          \E kind \in [S -> Kinds] :
             frags = [n \in S |-> StreamFragment(n, kind[n])]
    /\ arrived = <<>>
    /\ bufSize \in BufSizes

\* a producer hands the fragment numbered n to ProcessWRP
DoIngest(n) ==
    /\ n \in Pending
    /\ ProcessWRPCall(frags[n])
    /\ arrived' = Append(arrived, n)
    /\ UNCHANGED <<pktVars, frags, bufSize, lockVars, args>>

\* the consumer calls Read
DoReadFixed ==
    /\ ReadCall(bufSize)
    /\ UNCHANGED <<pktVars, runVars, lockVars, args>>

NextReorder ==
    \/ \E n \in 0..MaxPkt : DoIngest(n)
    \/ DoReadFixed

SpecReorder == InitReorder /\ [][NextReorder]_vars

(***************************************************************************)
(* SpecIngest: one Assembler, built with or without                        *)
(* wrp.NoStandardValidation among its Validators, whose producers also     *)
(* hand it envelopes that are not fragments: another message kind, no SSP  *)
(* header, damaged or oddly written numeric headers.                       *)
(***************************************************************************)
ValidatorChoices == { {}, {NoStandardValidation} }

\* the fragments of an abnormally ended stream, the last one compressed
Sound ==
    { Fragment(n, <<>>, <<>>, Bytes(n, 2)) : n \in 0..MaxPkt }
    \cup { Fragment(MaxPkt, <<"O", "o", "p", "s">>, EncodingGzip,
                    GzipCompress(Bytes(MaxPkt, 1))) }

Arriving ==
    Sound \cup OtherKind \cup BadNumbers \cup OddNumbers \cup {EmptyMarker}

InitIngest ==
    /\ Validators \in ValidatorChoices
    /\ closed = ZeroAssembler.closed
    /\ current = ZeroAssembler.current
    /\ final = ZeroAssembler.final
    /\ offset = ZeroAssembler.offset
    /\ packets = ZeroAssembler.packets
    /\ decoded = ZeroAssembler.decoded
    /\ InitObserved /\ InitNoThreads /\ InitNoArgs
    /\ InitNoPacketizer /\ InitNoRun

NextIngest ==
    \/ \E plen \in BufSizes : DoRead(plen)
    \/ \E msg \in Arriving : DoProcessWRP(msg)
    \/ DoClose

SpecIngest == InitIngest /\ [][NextIngest]_vars

(***************************************************************************)
(* SpecConcurrent: Read, ProcessWRP and Close taken apart into the steps   *)
(* of their code, run by one reading thread and MaxWriters threads that    *)
(* call ProcessWRP and Close.  mutex is a.m: the thread that holds it, or  *)
(* Unlocked.  threads holds each thread's position and locals.  serial is  *)
(* the Assembler the same calls leave when each runs as one step, in the   *)
(* order in which the calls took the lock.                                 *)
(***************************************************************************)
MaxWriters == 2

Reader == <<"reader", 0>>
Writers == {<<"writer", i>> : i \in 1..MaxWriters}
Threads == {Reader} \cup Writers

\* the envelopes the writers hand to ProcessWRP
Sent ==
    { Fragment(0, <<>>, <<>>, Bytes(0, 2)),
      Fragment(0, <<>>, EncodingGzip, <<7>>),
      Fragment(1, <<"e", "o", "f">>, <<>>, <<>>),
      Envelope(<<<<"x", ":", " ", "1">>>>, <<1>>),
      Envelope(<<Line(stream_id, <<"s">>),
                 Line(stream_packet_number, <<"x">>)>>, <<1>>) }

\* a thread that is in no call
Idle ==
    [pc |-> "idle", msg |-> <<>>, plen |-> 0, ssp |-> ZeroSSM, buf |-> <<>>,
     ret |-> [data |-> <<>>, err |-> Nil],
     want |-> [data |-> <<>>, err |-> Nil]]

\* Lock as it would be if it did not wait for the holder
Lock_noWait(mu) == TRUE

\* a.m.Lock() returns once no other call holds the mutex
Lock(mu) == mu = Unlocked

obsVars == <<delivered, reached, termOutcome, last>>

InitConcurrent ==
    /\ InitAssembler /\ InitObserved /\ InitNoPacketizer /\ InitNoRun
    /\ InitNoArgs
    /\ mutex = Unlocked
    /\ threads = [t \in Threads |-> Idle]
    /\ serial = ZeroAssembler

\* Read(p) with len(p) = plen: a.m.Lock()
ReadLock(t, plen) ==
    /\ t = Reader
    /\ threads[t].pc = "idle"
    /\ Lock(mutex)
    /\ mutex' = t
    /\ LET whole(r) ==
             /\ serial' = r.a
             /\ threads' = [threads EXCEPT ![t] =
                   [Idle EXCEPT !.pc = "getPacket", !.plen = plen,
                                !.want = [data |-> r.data, err |-> r.err]]]
       IN  whole(Read(serial, plen))
    /\ UNCHANGED <<asmVars, pktVars, runVars, args, obsVars>>

\* packet, buf, found, err := a.getPacket(a.current), and the two early
\* returns
ReadGetPacket(t) ==
    /\ threads[t].pc = "getPacket"
    /\ LET return(a, err) ==
             /\ SetAssembler(a)
             /\ threads' = [threads EXCEPT ![t].pc = "Unlock",
                                           ![t].ret.err = err]
           got(g) ==
             IF g.err # Nil
             THEN return(close([g.a EXCEPT !.final = ErrorText(g.err)]),
                         g.err)
             ELSE IF ~g.found
             THEN return(IF getFinalState(g.a) # Nil THEN close(g.a)
                         ELSE g.a,
                         getFinalState(g.a))
             ELSE /\ SetAssembler(g.a)
                  /\ threads' = [threads EXCEPT ![t].pc = "copy",
                                                ![t].ssp = g.msg,
                                                ![t].buf = g.buf]
       IN  got(getPacket(Assembler, current))
    /\ UNCHANGED <<mutex, serial, pktVars, runVars, args, obsVars>>

\* a.final = ...; n := copy(p, buf[a.offset:]); a.offset += n
ReadCopy(t) ==
    /\ threads[t].pc = "copy"
    /\ final' = IF threads[t].ssp.StreamFinalPacket # <<>>
                THEN TrimSpace(threads[t].ssp.StreamFinalPacket)
                ELSE final
    /\ LET copied(data) ==
             /\ offset' = offset + Len(data)
             /\ threads' = [threads EXCEPT ![t].pc = "advance",
                                           ![t].ret.data = data]
       IN  copied(Copy(threads[t].plen,
                       SubSeq(threads[t].buf, offset + 1,
                              Len(threads[t].buf))))
    /\ UNCHANGED <<Validators, closed, current, packets, decoded,
                   mutex, serial, pktVars, runVars, args, obsVars>>

\* if a.offset >= len(buf) { delete(a.packets, a.current); a.current++;
\* a.decoded = nil; a.offset = 0 }
ReadAdvance(t) ==
    /\ threads[t].pc = "advance"
    /\ IF offset >= Len(threads[t].buf)
       THEN /\ packets' =
                 IF packets.isNil THEN packets
                 ELSE [isNil |-> FALSE,
                       m |-> [k \in DOMAIN packets.m \ {current} |->
                                packets.m[k]]]
            /\ current' = current + 1
            /\ decoded' = NilDecoded
            /\ offset' = 0
       ELSE UNCHANGED <<packets, current, decoded, offset>>
    /\ threads' = [threads EXCEPT ![t].pc = "getFinalState"]
    /\ UNCHANGED <<Validators, closed, final,
                   mutex, serial, pktVars, runVars, args, obsVars>>

\* the end of Read as it would be if it returned the terminal outcome
\* without closing
ReadFinalState_staysOpen(t) ==
    /\ threads[t].pc = "getFinalState"
    /\ LET return(err) ==
             /\ SetAssembler(Assembler)
             /\ threads' = [threads EXCEPT ![t].pc = "Unlock",
                                           ![t].ret.err = err]
       IN  return(getFinalState(Assembler))
    /\ UNCHANGED <<mutex, serial, pktVars, runVars, args, obsVars>>

\* err = a.getFinalState(); if err != nil { a.close() }; return n, err
ReadFinalState(t) ==
    /\ threads[t].pc = "getFinalState"
    /\ LET return(err) ==
             /\ SetAssembler(IF err # Nil THEN close(Assembler)
                             ELSE Assembler)
             /\ threads' = [threads EXCEPT ![t].pc = "Unlock",
                                           ![t].ret.err = err]
       IN  return(getFinalState(Assembler))
    /\ UNCHANGED <<mutex, serial, pktVars, runVars, args, obsVars>>

\* ProcessWRP(ctx, msg) before it locks: Is and ssp.From
ProcessWRPParse(t, msg) ==
    /\ t \in Writers
    /\ threads[t].pc = "idle"
    /\ LET return(err, want) ==
             threads' = [threads EXCEPT ![t] =
                [Idle EXCEPT !.pc = "Return", !.ret.err = err,
                             !.want.err = want]]
           parsed(f, want) ==
             IF f.err # Nil THEN return(f.err, want)
             ELSE threads' = [threads EXCEPT ![t] =
                     [Idle EXCEPT !.pc = "Lock", !.msg = msg,
                                  !.ssp = f.ssm]]
           whole(r) ==
             IF ~IsSSP(msg) THEN return(ErrNotHandled, r.err)
             ELSE parsed(FromEnvelope(msg, Validators), r.err)
       IN  whole(ProcessWRP(serial, msg))
    /\ UNCHANGED <<mutex, serial, asmVars, pktVars, runVars, args, obsVars>>

\* a.m.Lock() of ProcessWRP
ProcessWRPLock(t) ==
    /\ threads[t].pc = "Lock"
    /\ Lock(mutex)
    /\ mutex' = t
    /\ LET whole(r) ==
             /\ serial' = r.a
             /\ threads' = [threads EXCEPT ![t].pc = "closed",
                                           ![t].want.err = r.err]
       IN  whole(ProcessWRP(serial, threads[t].msg))
    /\ UNCHANGED <<asmVars, pktVars, runVars, args, obsVars>>

\* if a.closed { return ErrClosed }
\* if a.current > ssp.StreamPacketNumber { return nil }
ProcessWRPCheck(t) ==
    /\ threads[t].pc = "closed"
    /\ threads' =
          IF closed
          THEN [threads EXCEPT ![t].pc = "Unlock", ![t].ret.err = ErrClosed]
          ELSE IF current > threads[t].ssp.StreamPacketNumber
          THEN [threads EXCEPT ![t].pc = "Unlock", ![t].ret.err = Nil]
          ELSE [threads EXCEPT ![t].pc = "make"]
    /\ UNCHANGED <<mutex, serial, asmVars, pktVars, runVars, args, obsVars>>

\* if a.packets == nil { a.packets = make(...) }
ProcessWRPMake(t) ==
    /\ threads[t].pc = "make"
    /\ packets' = IF packets.isNil THEN [isNil |-> FALSE, m |-> <<>>]
                  ELSE packets
    /\ threads' = [threads EXCEPT ![t].pc = "store"]
    /\ UNCHANGED <<Validators, closed, current, final, offset, decoded,
                   mutex, serial, pktVars, runVars, args, obsVars>>

\* the store step as it would be if a later arrival replaced the buffered
\* fragment
ProcessWRPStore_overwrites(t) ==
    /\ threads[t].pc = "store"
    /\ LET store(ssp) ==
             packets' =
                IF packets.isNil THEN packets
                ELSE [packets EXCEPT !.m =
                        [k \in DOMAIN packets.m
                                 \cup {ssp.StreamPacketNumber} |->
                           IF k = ssp.StreamPacketNumber THEN ssp
                           ELSE packets.m[k]]]
       IN  store(threads[t].ssp)
    /\ threads' = [threads EXCEPT ![t].pc = "Unlock", ![t].ret.err = Nil]
    /\ UNCHANGED <<Validators, closed, current, final, offset, decoded,
                   mutex, serial, pktVars, runVars, args, obsVars>>

\* if _, found := a.packets[n]; found { return nil }; a.packets[n] = &ssp
ProcessWRPStore(t) ==
    /\ threads[t].pc = "store"
    /\ LET store(ssp) ==
             packets' =
                IF packets.isNil
                   \/ ssp.StreamPacketNumber \in DOMAIN packets.m
                THEN packets
                ELSE [packets EXCEPT !.m =
                        [k \in DOMAIN packets.m
                                 \cup {ssp.StreamPacketNumber} |->
                           IF k = ssp.StreamPacketNumber THEN ssp
                           ELSE packets.m[k]]]
       IN  store(threads[t].ssp)
    /\ threads' = [threads EXCEPT ![t].pc = "Unlock", ![t].ret.err = Nil]
    /\ UNCHANGED <<Validators, closed, current, final, offset, decoded,
                   mutex, serial, pktVars, runVars, args, obsVars>>

\* Close: a.m.Lock()
CloseLock(t) ==
    /\ t \in Writers
    /\ threads[t].pc = "idle"
    /\ Lock(mutex)
    /\ mutex' = t
    /\ LET whole(r) ==
             /\ serial' = r.a
             /\ threads' = [threads EXCEPT ![t] =
                   [Idle EXCEPT !.pc = "packets", !.want.err = r.err]]
       IN  whole(Close(serial))
    /\ UNCHANGED <<asmVars, pktVars, runVars, args, obsVars>>

\* a.packets = nil
ClosePackets(t) ==
    /\ threads[t].pc = "packets"
    /\ packets' = NilPackets
    /\ threads' = [threads EXCEPT ![t].pc = "decoded"]
    /\ UNCHANGED <<Validators, closed, current, final, offset, decoded,
                   mutex, serial, pktVars, runVars, args, obsVars>>

\* a.decoded = nil
CloseDecoded(t) ==
    /\ threads[t].pc = "decoded"
    /\ decoded' = NilDecoded
    /\ threads' = [threads EXCEPT ![t].pc = "close"]
    /\ UNCHANGED <<Validators, closed, current, final, offset, packets,
                   mutex, serial, pktVars, runVars, args, obsVars>>

\* a.closed = true; return nil
CloseClosed(t) ==
    /\ threads[t].pc = "close"
    /\ closed' = TRUE
    /\ threads' = [threads EXCEPT ![t].pc = "Unlock", ![t].ret.err = Nil]
    /\ UNCHANGED <<Validators, current, final, offset, packets, decoded,
                   mutex, serial, pktVars, runVars, args, obsVars>>

\* the deferred Unlock as it would be if the call returned with the mutex
\* still held
Unlock_keepsLock(t) ==
    /\ threads[t].pc = "Unlock"
    /\ mutex' = mutex
    /\ threads' = [threads EXCEPT ![t] = Idle]
    /\ UNCHANGED <<serial, asmVars, pktVars, runVars, args, obsVars>>

\* defer a.m.Unlock(), and the call returns
Unlock(t) ==
    /\ threads[t].pc = "Unlock"
    /\ mutex' = Unlocked
    /\ threads' = [threads EXCEPT ![t] = Idle]
    /\ UNCHANGED <<serial, asmVars, pktVars, runVars, args, obsVars>>

\* a call that never locked returns
Return(t) ==
    /\ threads[t].pc = "Return"
    /\ threads' = [threads EXCEPT ![t] = Idle]
    /\ UNCHANGED <<mutex, serial, asmVars, pktVars, runVars, args, obsVars>>

NextConcurrent ==
    \/ \E t \in Threads, plen \in BufSizes : ReadLock(t, plen)
    \/ \E t \in Threads : ReadGetPacket(t)
    \/ \E t \in Threads : ReadCopy(t)
    \/ \E t \in Threads : ReadAdvance(t)
    \/ \E t \in Threads : ReadFinalState(t)
    \/ \E t \in Threads, msg \in Sent : ProcessWRPParse(t, msg)
    \/ \E t \in Threads : ProcessWRPLock(t)
    \/ \E t \in Threads : ProcessWRPCheck(t)
    \/ \E t \in Threads : ProcessWRPMake(t)
    \/ \E t \in Threads : ProcessWRPStore(t)
    \/ \E t \in Threads : CloseLock(t)
    \/ \E t \in Threads : ClosePackets(t)
    \/ \E t \in Threads : CloseDecoded(t)
    \/ \E t \in Threads : CloseClosed(t)
    \/ \E t \in Threads : Unlock(t)
    \/ \E t \in Threads : Return(t)

SpecConcurrent == InitConcurrent /\ [][NextConcurrent]_vars

\* the steps of thread t between a.m.Lock() and the return of its call
HolderStep(t) ==
    \/ ReadGetPacket(t) \/ ReadCopy(t) \/ ReadAdvance(t) \/ ReadFinalState(t)
    \/ ProcessWRPCheck(t) \/ ProcessWRPMake(t) \/ ProcessWRPStore(t)
    \/ ClosePackets(t) \/ CloseDecoded(t) \/ CloseClosed(t)
    \/ Unlock(t)

\* the goroutine that holds the mutex is scheduled: nothing between Lock and
\* Unlock blocks.  Only the holder has such a step to take.
SpecConcurrentFair ==
    SpecConcurrent /\ WF_vars(\E t \in Threads : HolderStep(t))

(***************************************************************************)
(* SpecDeliver: the fragments 0..k of a stream are handed to ProcessWRP in *)
(* any order, each once, between the calls of a consumer that calls Read   *)
(* again and again with a buffer of one fixed size.  Read is taken apart   *)
(* into its statements, as in SpecConcurrent; Close is not called.  The    *)
(* fragments before the last are data; the last is of any kind: data, a    *)
(* final packet, or damaged in transit.                                    *)
(***************************************************************************)
InitDeliver ==
    /\ InitAssembler /\ InitObserved /\ InitNoArgs /\ InitNoPacketizer
    /\ \E k \in 0..MaxPkt :
          \E kind \in [0..k -> Kinds] :
             /\ \A n \in 0..(k - 1) : kind[n] = "plain"
             /\ frags = [n \in 0..k |-> StreamFragment(n, kind[n])]
    /\ arrived = <<>>
    /\ bufSize \in BufSizes
    /\ mutex = Unlocked
    /\ threads = [t \in Threads |-> Idle]
    /\ serial = ZeroAssembler

\* the consumer calls Read(p) with len(p) = bufSize: a.m.Lock()
ReadEnter ==
    /\ threads[Reader].pc = "idle"
    /\ Lock(mutex)
    /\ mutex' = Reader
    /\ threads' = [threads EXCEPT ![Reader] =
          [Idle EXCEPT !.pc = "getPacket", !.plen = bufSize]]
    /\ UNCHANGED <<serial, asmVars, pktVars, runVars, args, obsVars>>

\* a producer's ProcessWRP of the fragment numbered n, between two Reads
IngestBetween(n) == Lock(mutex) /\ DoIngest(n)

NextDeliver ==
    \/ ReadEnter
    \/ ReadGetPacket(Reader)
    \/ ReadCopy(Reader)
    \/ ReadAdvance(Reader)
    \/ ReadFinalState(Reader)
    \/ Unlock(Reader)
    \/ \E n \in 0..MaxPkt : IngestBetween(n)

SpecDeliver == InitDeliver /\ [][NextDeliver]_vars

\* the hypotheses of a stream that is delivered: every fragment is handed
\* to ProcessWRP sooner or later, however often the consumer's Reads take
\* the mutex in between; the consumer keeps calling Read; and a Read that
\* was called runs to its return
SpecDeliverFair ==
    /\ SpecDeliver
    /\ SF_vars(\E n \in 0..MaxPkt : IngestBetween(n))
    /\ WF_vars(ReadEnter)
    /\ WF_vars(HolderStep(Reader))

(***************************************************************************)
(* SpecStreams: two runs side by side.  The same calls are made on two     *)
(* Assemblers, the one of the variables and args.b; each ProcessWRP hands  *)
(* the two of them the same fragment, the first under a stream id chosen   *)
(* freely at each call, the second always under the id of stream "s".      *)
(* args also keeps what the last call returned in each run.                *)
(***************************************************************************)
\* the stream ids senders use
StreamIDs == { <<"s">>, <<"t">> }

\* the fragment msg as a sender of stream id writes it
WithStreamID(msg, id) == [msg EXCEPT !.Headers[1] = Line(stream_id, id)]

\* the packet numbers of the fragments sent
Sequence == 0..(MaxPkt - 1)

NoPair ==
    [b |-> ZeroAssembler, op |-> "none",
     errA |-> Nil, errB |-> Nil, dataA |-> <<>>, dataB |-> <<>>]

InitStreams ==
    /\ InitAssembler /\ InitObserved /\ InitNoThreads /\ InitNoPacketizer
    /\ InitNoRun
    /\ args = NoPair

BothProcessWRP(n, kind, id) ==
    /\ LET seen(rA, rB) ==
             /\ SetAssembler(rA.a)
             /\ args' = [NoPair EXCEPT !.b = rB.a, !.op = "ProcessWRP",
                                       !.errA = rA.err, !.errB = rB.err]
       IN  seen(ProcessWRP(Assembler,
                           WithStreamID(StreamFragment(n, kind), id)),
                ProcessWRP(args.b, StreamFragment(n, kind)))
    /\ UNCHANGED <<pktVars, runVars, lockVars, obsVars>>

BothRead(plen) ==
    /\ LET seen(rA, rB) ==
             /\ SetAssembler(rA.a)
             /\ args' = [NoPair EXCEPT !.b = rB.a, !.op = "Read",
                                       !.errA = rA.err, !.errB = rB.err,
                                       !.dataA = rA.data, !.dataB = rB.data]
       IN  seen(Read(Assembler, plen), Read(args.b, plen))
    /\ UNCHANGED <<pktVars, runVars, lockVars, obsVars>>

BothClose ==
    /\ LET seen(rA, rB) ==
             /\ SetAssembler(rA.a)
             /\ args' = [NoPair EXCEPT !.b = rB.a, !.op = "Close",
                                       !.errA = rA.err, !.errB = rB.err]
       IN  seen(Close(Assembler), Close(args.b))
    /\ UNCHANGED <<pktVars, runVars, lockVars, obsVars>>

NextStreams ==
    \/ \E n \in Sequence, kind \in Kinds, id \in StreamIDs :
          BothProcessWRP(n, kind, id)
    \/ \E plen \in BufSizes : BothRead(plen)
    \/ BothClose

SpecStreams == InitStreams /\ [][NextStreams]_vars

(***************************************************************************)
(* SpecNew: New is called once with a stream id, a byte source or none, a  *)
(* maximum packet size, an estimated length, an encoding and a             *)
(* transaction-id generator or none.  args are the options; p is the       *)
(* Packetizer New returns, and stays ZeroPacketizer when it returns nil.   *)
(***************************************************************************)
\* stream ids: empty, of the id charset, and with a character outside it
IDs ==
    { <<>>, <<"s">>, <<"1", "2", "3">>, <<"a", "-", "Z", "_", "9">>,
      <<"1", "2", "3", "!">>, <<"a", " ", "b">>, <<"/">>, <<"s", "\n">> }

\* encodings: the four isValid accepts, a compression level, a misspelling
EncodingTags ==
    { <<>>, EncodingIdentity, EncodingGzip, EncodingDeflate,
      EncodingGzip \o <<"+", "b", "e", "s", "t">>,
      <<"i", "n", "v", "a", "l", "i", "d">> }

InitNew ==
    /\ InitAssembler /\ InitObserved /\ InitNoThreads /\ InitNoRun
    /\ InitNoPacketizer
    /\ args \in [id : IDs, hasReader : BOOLEAN, size : -1..MaxPacketSize,
                 length : -1..MaxData, e : EncodingTags, txGen : BOOLEAN]

\* p, err := New(ID(id), Reader(r), MaxPacketSize(size),
\*               EstimatedLength(length), WithEncoding(e), ...)
DoNew ==
    /\ last.op = "none"
    /\ LET seen(r) ==
             /\ p' = IF r.ok THEN r.p ELSE ZeroPacketizer
             /\ last' = [NoCall EXCEPT !.op = "New", !.err = r.err,
                                       !.isNil = ~r.ok]
       IN  seen(New(args.id, args.hasReader,
                    IF args.hasReader THEN Source(<<>>, EOF, FALSE, 0)
                    ELSE NilSource,
                    args.size, args.length, args.e, args.txGen))
    /\ UNCHANGED <<asmVars, ctxDone, wire, input, runVars, lockVars, args,
                   delivered, reached, termOutcome>>

NextNew == DoNew

SpecNew == InitNew /\ [][NextNew]_vars

(***************************************************************************)
(* SpecEncoding: a byte sequence is encoded under an encoding tag and the  *)
(* result decoded under the same tag.  input is the sequence, args the     *)
(* tag, wire the encoded bytes, delivered the decoded ones.                *)
(***************************************************************************)
\* byte sequences of up to MaxData bytes, the framing bytes among them
Payloads == UNION {[1..n -> {1, 7, 31}] : n \in 0..MaxData}

InitEncoding ==
    /\ InitAssembler /\ InitObserved /\ InitNoThreads /\ InitNoRun
    /\ p = ZeroPacketizer
    /\ ctxDone = FALSE
    /\ wire = <<>>
    /\ input \in Payloads
    /\ args \in [e : EncodingTags]

\* encoded, err := e.encode(data)
DoEncode ==
    /\ last.op = "none"
    /\ LET seen(r) ==
             /\ wire' = IF r.err = Nil THEN <<r.data>> ELSE <<>>
             /\ last' = [NoCall EXCEPT !.op = "encode", !.err = r.err]
       IN  seen(encode(args.e, input))
    /\ UNCHANGED <<asmVars, p, ctxDone, input, runVars, lockVars, args,
                   delivered, reached, termOutcome>>

\* data, err := e.decode(encoded)
DoDecode ==
    /\ last.op = "encode"
    /\ wire # <<>>
    /\ LET seen(r) ==
             /\ delivered' = r.data
             /\ last' = [NoCall EXCEPT !.op = "decode", !.err = r.err]
       IN  seen(decode(args.e, wire[1]))
    /\ UNCHANGED <<asmVars, pktVars, runVars, lockVars, args,
                   reached, termOutcome>>

NextEncoding == DoEncode \/ DoDecode

SpecEncoding == InitEncoding /\ [][NextEncoding]_vars

(***************************************************************************)
(* SpecCodec: an envelope with up to MaxLines header lines is decoded by   *)
(* From, the message encoded back by To, and the result decoded again.     *)
(* args is the envelope and whether the validators skip the standard       *)
(* validation; wire holds the envelope To has written.                     *)
(***************************************************************************)
MaxLines == 3

\* header lines: three that are not SSP headers (one without a colon, one
\* padded), and control lines as a sender may spell them
HeaderLines ==
    { <<"x", ":", " ", "1">>,
      <<"n", "o">>,
      <<" ", "Y", " ", ":", "z", " ">>,
      Line(stream_id, <<"s">>),
      <<"S", "t", "r", "e", "a", "m", "-", "I", "D", " ", ":", " ", " ", "t",
        " ">>,
      Line(stream_packet_number, <<"0", "0", "7">>),
      Line(stream_final_packet, <<" ", "E", "O", "F">>),
      Line(stream_encoding, EncodingGzip) }

InitCodec ==
    /\ InitAssembler /\ InitObserved /\ InitNoThreads /\ InitNoRun
    /\ InitNoPacketizer
    /\ \E n \in 0..MaxLines, skip \in BOOLEAN :
          \E hdrs \in [1..n -> HeaderLines] :
             args = [msg |-> Envelope(hdrs, <<1>>), skip |-> skip]

\* err := ssm.From(&msg, validators...)
DoFrom ==
    /\ last.op = "none"
    /\ LET seen(f) == last' = [NoCall EXCEPT !.op = "From", !.err = f.err]
       IN  seen(From(args.msg, args.skip))
    /\ UNCHANGED <<asmVars, pktVars, runVars, lockVars, args,
                   delivered, reached, termOutcome>>

\* err = ssm.To(&out, validators...)
DoTo ==
    /\ last.op = "From" /\ last.err = Nil
    /\ LET seen(t) ==
             /\ wire' = IF t.ok THEN <<t.msg>> ELSE <<>>
             /\ last' = [NoCall EXCEPT !.op = "To", !.err = t.err]
       IN  seen(To(From(args.msg, args.skip).ssm, args.skip))
    /\ UNCHANGED <<asmVars, p, ctxDone, input, runVars, lockVars, args,
                   delivered, reached, termOutcome>>

\* err = back.From(&out, validators...)
DoFromBack ==
    /\ last.op = "To" /\ last.err = Nil
    /\ LET seen(f) == last' = [NoCall EXCEPT !.op = "FromBack",
                                             !.err = f.err]
       IN  seen(From(wire[1], args.skip))
    /\ UNCHANGED <<asmVars, pktVars, runVars, lockVars, args,
                   delivered, reached, termOutcome>>

NextCodec == DoFrom \/ DoTo \/ DoFromBack

SpecCodec == InitCodec /\ [][NextCodec]_vars

(***************************************************************************)
(* SpecEncodeFailure: a Packetizer whose encoding field holds a tag that   *)
(* encode does not support.  New rejects such a tag, so the field is set   *)
(* on the Packetizer New returned, as the repository's test of the         *)
(* encoding failure does.  Next is called with or without the validator    *)
(* that skips the standard validation; args records which.                 *)
(***************************************************************************)
Invalid == <<"i", "n", "v", "a", "l", "i", "d">>

InitEncodeFailure ==
    /\ InitAssembler /\ InitObserved /\ InitNoThreads /\ InitNoArgs
    /\ InitNoRun
    /\ input \in Inputs
    /\ \E size \in 0..MaxPacketSize, e \in {Invalid, EncodingGzip},
          eager \in BOOLEAN, end \in {EOF, ErrUnexpectedEOF},
          txGen \in BOOLEAN :
          p = [New(<<"s">>, TRUE, Source(input, end, eager, 0), size,
                   Len(input), EncodingIdentity, txGen).p
                 EXCEPT !.encoding = e]
    /\ ctxDone = FALSE
    /\ wire = <<>>

\* Packetizer.Next(ctx, msg, validators...); skip is whether the validators
\* skip the standard validation
NextValidated(q, ctx, msg, tx, skip) ==
    LET converted(x, t) ==
            IF t.err # Nil
            THEN [p |-> x.p, isNil |-> TRUE, msg |-> <<>>, err |-> t.err,
                  reads |-> x.reads]
            ELSE [p |-> x.p, isNil |-> FALSE, msg |-> t.msg, err |-> x.err,
                  reads |-> x.reads]
        raw(x) ==
            IF x.isNil
            THEN [p |-> x.p, isNil |-> TRUE, msg |-> <<>>, err |-> x.err,
                  reads |-> x.reads]
            ELSE converted(x, To(x.ssm, skip))
    IN  raw(nextRaw(q, ctx, msg, tx))

\* the sender calls Next; of the call, last keeps the number of bytes its
\* read loop got (n), whether encode was called and failed (failed) and
\* whether the template passes the envelope library's validation
DoNextValidated(msg, tx, skip) ==
    /\ LET seen(r, l) ==
             /\ p' = r.p
             /\ wire' = IF r.isNil THEN wire ELSE Append(wire, r.msg)
             /\ last' = [NoCall EXCEPT
                           !.op = "Next", !.err = r.err,
                           !.isNil = r.isNil, !.reads = r.reads,
                           !.after = p.outcome # Nil,
                           !.number = p.currentPacketNumber,
                           !.txFailed = p.txGen /\ tx.err # Nil,
                           !.n = IF p.outcome # Nil THEN 0 ELSE l.n,
                           !.failed = /\ p.outcome = Nil
                                      /\ l.n > 0
                                      /\ encode(p.encoding, l.buf).err # Nil,
                           !.wellFormed = msg.wrpValid]
       IN  seen(NextValidated(p, Context(ctxDone, 0 - 1), msg, tx, skip),
                ReadLoop(p.stream, p.maxPacketSize,
                         Context(ctxDone, 0 - 1), 0))
    /\ args' = [skip |-> skip]
    /\ UNCHANGED <<asmVars, ctxDone, input, runVars, lockVars,
                   delivered, reached, termOutcome>>

NextEncodeFailure ==
    \/ \E msg \in Templates, tx \in TxOutcomes, skip \in BOOLEAN :
          DoNextValidated(msg, tx, skip)
    \/ DoCancel

SpecEncodeFailure == InitEncodeFailure /\ [][NextEncodeFailure]_vars

(***************************************************************************)
(* SpecTxGen: Next with a transaction-id generator that hands out a new    *)
(* id at every invocation and may fail.  args.calls counts the             *)
(* invocations of the generator.                                           *)
(***************************************************************************)
\* the id the generator returns at its k-th invocation
IdOf(k) == <<"u">> \o FormatInt(k)

InitTxGen ==
    /\ InitAssembler /\ InitObserved /\ InitNoThreads /\ InitNoRun
    /\ input \in Inputs
    /\ \E size \in 1..MaxPacketSize, eager \in BOOLEAN,
          end \in {EOF, ErrUnexpectedEOF}, txGen \in BOOLEAN :
          p = New(<<"s">>, TRUE, Source(input, end, eager, 0), size,
                  Len(input), EncodingIdentity, txGen).p
    /\ ctxDone = FALSE
    /\ wire = <<>>
    /\ args = [calls |-> 0]

\* the sender calls Next with the template msg; the generator, if it is
\* invoked, fails or returns its next id
DoNextTxGen(msg, fails) ==
    /\ LET seen(r) ==
             /\ p' = r.p
             /\ wire' = IF r.isNil THEN wire ELSE Append(wire, r.msg)
             /\ ctxDone' = (ctxDone \/ r.p.outcome = ErrCanceled)
             /\ last' = [NoCall EXCEPT
                           !.op = "Next", !.err = r.err,
                           !.isNil = r.isNil, !.reads = r.reads,
                           !.after = p.outcome # Nil,
                           !.number = p.currentPacketNumber,
                           !.txFailed = p.txGen /\ p.outcome = Nil /\ fails,
                           !.wellFormed = msg.wrpValid]
       IN  seen(PacketizerNext(p, Context(ctxDone, 0 - 1), msg,
                               [id  |-> IdOf(args.calls + 1),
                                err |-> IF fails THEN ErrTxGen ELSE Nil]))
    /\ args' = [calls |-> args.calls + txGenCalls(p)]
    /\ UNCHANGED <<asmVars, input, runVars, lockVars,
                   delivered, reached, termOutcome>>

NextTxGen ==
    \/ \E msg \in Templates, fails \in BOOLEAN : DoNextTxGen(msg, fails)
    \/ DoCancel

SpecTxGen == InitTxGen /\ [][NextTxGen]_vars

(***************************************************************************)
(* SpecPoll: one call of Next at a time, with the read loop of nextRaw     *)
(* taken one statement at a time.  args is the frame of the call: where it *)
(* is (idle: no call; loop: at the loop condition; read: in the default    *)
(* branch of the select, the read not yet returned; after: past the loop   *)
(* and the statement that stores its error), the template, and the         *)
(* loop's n, err and bytes read, with the number of reads made, counted up *)
(* to MaxStalls + 1.  Between the steps the context may be cancelled and   *)
(* the source may run out of bytes to hand over at its next read, any      *)
(* number of times.                                                        *)
(***************************************************************************)
NoFrame ==
    [pc |-> "idle", msg |-> Template, n |-> 0, err |-> Nil, buf |-> <<>>,
     reads |-> 0]

InitPoll ==
    /\ InitAssembler /\ InitObserved /\ InitNoThreads /\ InitNoRun
    /\ input \in Inputs
    /\ \E size \in 1..MaxPacketSize, eager \in BOOLEAN,
          stalls \in 0..MaxStalls, txGen \in BOOLEAN :
          p = New(<<"s">>, TRUE, Source(input, EOF, eager, stalls), size,
                  Len(input), EncodingIdentity, txGen).p
    /\ ctxDone = FALSE
    /\ wire = <<>>
    /\ args = NoFrame

\* a source whose first read hands over the bytes buf together with err
Handing(buf, err) == Source(buf, err, TRUE, 0)

\* if p.outcome != nil { return nil, p.outcome }; buf := make(...); var err,
\* n: the call returns at once or stands at the loop condition
NextEnter(msg, tx) ==
    /\ args.pc = "idle"
    /\ IF p.outcome # Nil
       THEN LET seen(r) ==
                  /\ p' = r.p
                  /\ last' = [NoCall EXCEPT
                                !.op = "Next", !.err = r.err,
                                !.isNil = r.isNil, !.after = TRUE,
                                !.number = p.currentPacketNumber]
                  /\ args' = NoFrame
            IN  seen(PacketizerNext(p, Context(ctxDone, 0 - 1), msg, tx))
       ELSE /\ args' = [NoFrame EXCEPT !.pc = "loop", !.msg = msg]
            /\ UNCHANGED <<p, last>>
    /\ UNCHANGED <<asmVars, ctxDone, wire, input, runVars, lockVars,
                   delivered, reached, termOutcome>>

\* for n == 0 && err == nil { select { case <-ctx.Done(): err = ctx.Err();
\* p.finalPacket = err.Error() ... default: (the read begins) } }
LoopSelect ==
    /\ args.pc = "loop"
    /\ args.n = 0 /\ args.err = Nil
    /\ IF Done(Context(ctxDone, 0 - 1), args.reads)
       THEN /\ args' = [args EXCEPT !.err = ErrCanceled]
            /\ p' = [p EXCEPT !.finalPacket = ErrorText(ErrCanceled)]
       ELSE /\ args' = [args EXCEPT !.pc = "read"]
            /\ p' = p
    /\ UNCHANGED <<asmVars, ctxDone, wire, input, runVars, lockVars,
                   delivered, reached, termOutcome, last>>

\* default: n, err = p.stream.Read(buf): the read returns
LoopRead ==
    /\ args.pc = "read"
    /\ LET got(x) ==
             /\ p' = [p EXCEPT !.stream = x.r]
             /\ args' = [args EXCEPT !.pc = "loop", !.n = x.n, !.err = x.err,
                                     !.buf = x.buf,
                                     !.reads = IF @ <= MaxStalls THEN @ + 1
                                               ELSE @]
       IN  got(SourceRead(p.stream, p.maxPacketSize))
    /\ UNCHANGED <<asmVars, ctxDone, wire, input, runVars, lockVars,
                   delivered, reached, termOutcome, last>>

\* the loop is left: if err != nil { p.finalPacket = ...; p.outcome = err }
LoopExit ==
    /\ args.pc = "loop"
    /\ ~(args.n = 0 /\ args.err = Nil)
    /\ args' = [args EXCEPT !.pc = "after"]
    /\ p' = IF args.err # Nil
            THEN [p EXCEPT !.finalPacket = IF ErrorIs(args.err, EOF)
                                           THEN <<"E", "O", "F">>
                                           ELSE ErrorText(args.err),
                           !.outcome = args.err]
            ELSE p
    /\ UNCHANGED <<asmVars, ctxDone, wire, input, runVars, lockVars,
                   delivered, reached, termOutcome, last>>

\* the statements of nextRaw and of Next that follow, as nextRaw executes
\* them when its loop ends with the frame's n, err and bytes at once; tx is
\* what the generator returns if it is called
NextLeave(tx) ==
    /\ args.pc = "after"
    /\ LET seen(r) ==
             /\ p' = [r.p EXCEPT !.stream = p.stream]
             /\ wire' = IF r.isNil THEN wire ELSE Append(wire, r.msg)
             /\ last' = [NoCall EXCEPT
                           !.op = "Next", !.err = r.err,
                           !.isNil = r.isNil, !.reads = args.reads,
                           !.n = args.n,
                           !.number = p.currentPacketNumber,
                           !.txFailed = p.txGen /\ tx.err # Nil]
       IN  seen(PacketizerNext(
                  [p EXCEPT !.stream = Handing(args.buf, args.err),
                            !.outcome = Nil],
                  Context(args.err = ErrCanceled, 0 - 1), args.msg, tx))
    /\ args' = NoFrame
    /\ UNCHANGED <<asmVars, ctxDone, input, runVars, lockVars,
                   delivered, reached, termOutcome>>

\* the source has nothing to hand over at its next read
SourceDry ==
    /\ p.stream.stalls < MaxStalls
    /\ p' = [p EXCEPT !.stream.stalls = @ + 1]
    /\ UNCHANGED <<asmVars, ctxDone, wire, input, runVars, lockVars, args,
                   delivered, reached, termOutcome, last>>

\* the steps of the read loop
LoopSteps == LoopSelect \/ LoopRead \/ LoopExit

NextPoll ==
    \/ \E msg \in Templates, tx \in TxOutcomes : NextEnter(msg, tx)
    \/ LoopSteps
    \/ \E tx \in TxOutcomes : NextLeave(tx)
    \/ SourceDry
    \/ DoCancel

SpecPoll == InitPoll /\ [][NextPoll]_vars

\* the loop of a call in progress is not suspended for ever: the source's
\* Read returns, and the goroutine that called Next is scheduled
SpecPollFair == SpecPoll /\ WF_vars(LoopSteps)

(***************************************************************************)
(* Properties of the Assembler under Spec.                                 *)
(***************************************************************************)
IsPrefix(s, t) == Len(s) <= Len(t) /\ SubSeq(t, 1, Len(s)) = s

\* the envelopes ProcessWRP takes for SSP fragments and parses without error
WellFormed == {m \in Envelopes : IsSSP(m) /\ FromEnvelope(m, {}).err = Nil}

\* C2: the bytes returned by successive Reads are a prefix of the decoded
\* payloads of the fragments reached at the cursor, in packet number order,
\* and are all of them once a terminal outcome has been returned.
C2_ExactlyOnce ==
    /\ IsPrefix(delivered, reached)
    /\ termOutcome # Nil => delivered = reached

\* C4, as claimed: a fragment whose packet number is buffered or below the
\* cursor is answered with success and changes no field of the Assembler.
C4_DuplicateSucceeds ==
    [][(last'.op = "ProcessWRP" /\ last'.dup)
         => (last'.err = Nil /\ UNCHANGED asmVars)]_vars

\* C4, amended: such a fragment changes no field of the Assembler (so no
\* byte Read returns later); it is answered with success while the Assembler
\* is open and with ErrClosed once it is closed.
C4_DuplicateIgnored ==
    [][(last'.op = "ProcessWRP" /\ last'.dup)
         => /\ UNCHANGED asmVars
            /\ last'.err = IF closed THEN ErrClosed ELSE Nil]_vars

C4_Witness ==
    /\ last.op = "ProcessWRP" /\ last.dup /\ last.err = Nil
    /\ current > 0 /\ delivered # <<>> /\ last.held > 0

C6_CleanEOF ==
    (last.op = "Read" /\ last.err = EOF) =>
       /\ ~last.failed
       /\ delivered = reached
       /\ last.after \/ ToLower(last.fin) = <<"e", "o", "f">>

\* C7: once a Read has returned a terminal outcome, every later Read, in
\* every state reached by any calls since, returns zero bytes and that
\* outcome.
C7_IdempotentTermination ==
    /\ termOutcome # Nil =>
          \A plen \in BufSizes :
             LET r == Read(Assembler, plen)
             IN  r.n = 0 /\ r.err = termOutcome
    /\ (last.op = "Read" /\ last.after) =>
          last.n = 0 /\ last.err = termOutcome

C7_Witness ==
    /\ last.op = "Read" /\ last.after /\ last.err = termOutcome
    /\ delivered # <<>>

\* C8: a closed Assembler answers every well-formed fragment with ErrClosed
\* and buffers nothing.
C8_ClosedRejects ==
    /\ closed =>
          \A m \in WellFormed :
             ProcessWRP(Assembler, m) = [a |-> Assembler, err |-> ErrClosed]
    /\ (last.op = "ProcessWRP" /\ last.wellFormed /\ closed) =>
          last.err = ErrClosed /\ packets = NilPackets

C8_Witness ==
    /\ closed /\ current > 0
    /\ last.op = "ProcessWRP" /\ last.wellFormed /\ last.err = ErrClosed

\* C9: on a closed Assembler Read returns an error, not the not-ready
\* response (0, nil).
C9_ReadAfterCloseFails ==
    closed => \A plen \in BufSizes : Read(Assembler, plen).err # Nil

\* C10: Close returns nil, leaves no buffered fragment and no decode cache,
\* sets closed, and a second Close changes nothing.
C10_CloseIdempotent ==
    /\ LET c == Close(Assembler)
       IN  /\ c.err = Nil
           /\ c.a.closed
           /\ c.a.packets = NilPackets
           /\ c.a.decoded = NilDecoded
           /\ Close(c.a) = c
    /\ last.op = "Close" =>
          /\ last.err = Nil /\ closed
          /\ packets = NilPackets /\ decoded = NilDecoded

C10_Witness ==
    /\ last.op = "Close" /\ last.held > 0 /\ offset > 0
    /\ closed /\ packets = NilPackets /\ decoded = NilDecoded

(***************************************************************************)
(* Properties under SpecReorder.                                           *)
(***************************************************************************)
\* the Assembler after ProcessWRP was given the fragments f[n], n in S, in
\* increasing packet number
RECURSIVE IngestInOrder(_, _, _)
IngestInOrder(a, f, S) ==
    IF S = {} THEN a
    ELSE LET least(n) == IngestInOrder(ProcessWRP(a, f[n]).a, f, S \ {n})
         IN  least(CHOOSE k \in S : \A j \in S : k <= j)

\* Read called with a buffer of plen bytes until it returns an error or
\* finds no fragment at the cursor: the bytes returned and the error
RECURSIVE ReadAll(_, _, _)
ReadAll(a, plen, bytes) ==
    LET step(g, r) ==
            IF r.err # Nil THEN [bytes |-> bytes \o r.data, err |-> r.err]
            ELSE IF ~g.found THEN [bytes |-> bytes, err |-> Nil]
            ELSE ReadAll(r.a, plen, bytes \o r.data)
    IN  step(getPacket(a, a.current), Read(a, plen))

\* what Read returns when the fragments arrive in packet number order before
\* the first Read
InOrderRun ==
    ReadAll(IngestInOrder(ZeroAssembler, frags, DOMAIN frags), bufSize, <<>>)

\* C3: whatever the order in which the fragments are handed to ProcessWRP,
\* and however the Reads fall between them, Read returns a prefix of the bytes
\* of the in-order run; the first error Read returns is the in-order run's,
\* after exactly its bytes; and when every fragment has arrived and Read finds
\* none at the cursor, the in-order run ended the same way with the same
\* bytes.
C3_ReorderTolerance ==
    LET same(ref) ==
          /\ IsPrefix(delivered, ref.bytes)
          /\ (last.op = "Read" /\ last.err # Nil /\ ~last.wasClosed)
                => delivered = ref.bytes /\ last.err = ref.err
          /\ (last.op = "Read" /\ last.err = Nil /\ ~last.found
                /\ Pending = {})
                => delivered = ref.bytes /\ ref.err = Nil
    IN  same(InOrderRun)

\* every fragment arrived in decreasing packet number and the stream was read
\* to its clean end
C3_Witness ==
    /\ DOMAIN frags = 0..MaxPkt
    /\ Len(arrived) = MaxPkt + 1
    /\ \A i \in 1..Len(arrived) : arrived[i] = MaxPkt + 1 - i
    /\ last.op = "Read" /\ last.err = EOF
    /\ current = MaxPkt + 1
    /\ Len(delivered) > MaxPkt

\* the decoded payloads of the run's fragments 0, 1, ... in increasing
\* packet number, up to the first one that is absent or does not decode
RECURSIVE InSequence(_)
InSequence(n) ==
    LET more(d) == IF d.err # Nil THEN <<>> ELSE d.data \o InSequence(n + 1)
        payload(ssm) == more(decode(ssm.StreamEncoding, ssm.Payload))
    IN  IF n \notin DOMAIN frags THEN <<>>
        ELSE payload(FromEnvelope(frags[n], {}).ssm)

\* the fragment numbered n is buffered
Buffered(n) == ~packets.isNil /\ n \in DOMAIN packets.m

\* C13: while the fragment at the cursor has not arrived and no terminal
\* reason is recorded, Read returns (0, nil) and changes no field, whatever
\* is buffered under higher packet numbers; and the bytes Read has returned
\* are at every moment a prefix of the payloads in increasing packet number,
\* whatever the order of arrival.
C13_NotReady ==
    /\ (~Buffered(current) /\ final = <<>>) =>
          \A plen \in BufSizes :
             Read(Assembler, plen) =
                [a |-> Assembler, n |-> 0, data |-> <<>>, err |-> Nil]
    /\ IsPrefix(delivered, InSequence(0))

\* fragment 1 arrived before fragment 0, and Read has returned the bytes of
\* fragment 0 followed by those of fragment 1
C13_Witness ==
    /\ Len(arrived) >= 2 /\ arrived[1] = 1 /\ arrived[2] = 0
    /\ current = 2 /\ final = <<>>
    /\ delivered = Bytes(0, 2) \o Bytes(1, 2)
    /\ last.op = "Read" /\ last.err = Nil

(***************************************************************************)
(* Properties of the Packetizer feeding the Assembler, under SpecE2E.      *)
(***************************************************************************)
\* C1: when the source has ended cleanly (it answered io.EOF on the read
\* after its last bytes, as a bytes.Reader does), every fragment Next
\* returned has been given to ProcessWRP in emission order and Read has
\* returned an error, the bytes Read returned are the input and the error is
\* io.EOF.
C1_RoundTrip ==
    (/\ p.outcome = EOF /\ ~p.stream.eager /\ wire = <<>>
     /\ last.op = "Read" /\ last.err # Nil /\ ~last.wasClosed)
       => delivered = input /\ last.err = EOF

(***************************************************************************)
(* Properties of ProcessWRP under SpecIngest.                              *)
(***************************************************************************)
\* the arriving envelopes that are not SSP fragments: another message kind,
\* or no SSP control header
NotFragments ==
    {m \in Arriving : m.Type # SimpleEventMessageType \/ ~IsSSP(m)}

\* C11: ProcessWRP answers every envelope that is not an SSP fragment (its
\* kind is not simple-event, or it has no SSP control header) with
\* ErrNotHandled and changes no field of the Assembler.
C11_NotHandled ==
    \A m \in NotFragments :
        ProcessWRP(Assembler, m) = [a |-> Assembler, err |-> ErrNotHandled]

Unparsable ==
    {m \in BadNumbers : FromEnvelope(m, {NoStandardValidation}).err # Nil}

Emitted(i) == From(wire[i], TRUE).ssm

\* the calls the sender can make
Calls ==
    { [msg |-> msg, tx |-> tx, ctx |-> Context(ctxDone, c)] :
        msg \in Templates, tx \in TxOutcomes, c \in -1..MaxStalls }

\* the last call was a Next made before any terminal reason was stored
LiveNext == last.op = "Next" /\ ~last.after

\* C14: the envelopes Next has returned carry the packet numbers 0, 1, 2,
\* ... in the order of the calls, whatever the source, the templates and the
\* generator did.
C14_Consecutive ==
    \A i \in 1..Len(wire) : Emitted(i).StreamPacketNumber = i - 1

\* C15: once a terminal reason is stored, every Next returns no fragment
\* and the stored error, reads nothing from the source and changes no field
\* of the Packetizer.
C15_StoredOutcome ==
    /\ p.outcome # Nil =>
          \A c \in Calls :
             PacketizerNext(p, c.ctx, c.msg, c.tx) =
                [p |-> p, isNil |-> TRUE, msg |-> <<>>, err |-> p.outcome,
                 reads |-> 0]
    /\ (last.op = "Next" /\ last.after) =>
          last.isNil /\ last.err = p.outcome /\ last.reads = 0

\* two calls at least were made after an abnormal end of the source
C15_Witness ==
    /\ last.op = "Next" /\ last.after
    /\ p.outcome = ErrUnexpectedEOF /\ last.err = ErrUnexpectedEOF
    /\ Len(wire) >= 2

\* C16: a call made before any terminal reason was stored returns a
\* fragment; if the call stored a terminal reason the fragment carries the
\* final-packet marker and the call returns that reason as its error,
\* otherwise the fragment has no marker and the error is nil.
C16_TerminalCall ==
    LiveNext =>
       /\ ~last.isNil
       /\ last.err = p.outcome
       /\ (Emitted(Len(wire)).StreamFinalPacket # <<>>) = (p.outcome # Nil)

\* C17: a call on which the generator failed returns no fragment and leaves
\* the next packet number and the stored outcome as they were.
C17_FailedCallNoEffect ==
    (LiveNext /\ last.txFailed) =>
       /\ last.isNil
       /\ p.currentPacketNumber = last.number
       /\ p.outcome = Nil

\* the context of the last call was done before the source gave bytes or an
\* error: at the start of the call, or after reads that all returned (0, nil)
CancelledInTime ==
    LiveNext /\ last.cancelAt >= 0 /\ last.cancelAt <= last.stalls

\* C18: such a call reads the source no more once the context is done, and
\* returns a fragment with an empty payload and the cancellation text as its
\* final-packet marker, with the cancellation error; the Packetizer is
\* terminal after it.
C18_Cancellation ==
    CancelledInTime =>
       /\ last.reads = last.cancelAt
       /\ p.outcome = ErrCanceled
       /\ last.err = ErrCanceled
       /\ ~last.isNil
       /\ wire[Len(wire)].Payload = <<>>
       /\ Emitted(Len(wire)).StreamFinalPacket = ErrorText(ErrCanceled)

\* C19: of the envelopes Next has returned only the last can carry the
\* final-packet marker, so that there is one at most and none follows it.
C19_OneTerminalFragment ==
    \A i \in 1..Len(wire) :
        Emitted(i).StreamFinalPacket # <<>> => i = Len(wire)

\* a fragment with the marker followed data fragments, and Next was called
\* again after it
C19_Witness ==
    /\ Len(wire) >= 2
    /\ Emitted(Len(wire)).StreamFinalPacket # <<>>
    /\ last.op = "Next" /\ last.after /\ last.isNil

(***************************************************************************)
(* The abnormal end of a stream, from the source to Read, under SpecE2E.   *)
(***************************************************************************)
\* the source handed over its last bytes together with io.ErrUnexpectedEOF
AbnormalEnd ==
    p.outcome = ErrUnexpectedEOF /\ p.stream.eager /\ input # <<>>

\* C20: when the source returns its last bytes together with an error that
\* is not io.EOF, the envelope Next returns on that call carries those bytes
\* and the error's text as final-packet marker; and once every envelope has
\* been given to ProcessWRP and Read has returned an error, Read has
\* returned all the bytes of the input and the error matches
\* io.ErrUnexpectedEOF, carries that text and is not io.EOF.
C20_AbnormalEnd ==
    /\ (AbnormalEnd /\ last.op = "Next" /\ ~last.after) =>
          /\ ~last.isNil
          /\ last.err = ErrUnexpectedEOF
          /\ wire[Len(wire)].Payload # <<>>
          /\ Emitted(Len(wire)).StreamFinalPacket
                = ErrorText(ErrUnexpectedEOF)
    /\ (AbnormalEnd /\ wire = <<>>
           /\ last.op = "Read" /\ last.err # Nil /\ ~last.wasClosed) =>
          /\ delivered = input
          /\ ErrorIs(last.err, ErrUnexpectedEOF)
          /\ ~ErrorIs(last.err, EOF)
          /\ last.err = unexpectedEOF(ErrorText(ErrUnexpectedEOF))

(***************************************************************************)
(* Decode failures, under Spec.                                            *)
(***************************************************************************)
\* C21: when the fragment at the cursor does not decode, Read returns zero
\* bytes and the decode error, and leaves the Assembler closed with nothing
\* buffered; on the Assembler it leaves, ProcessWRP answers every well-formed
\* fragment with ErrClosed and Read returns an error for every buffer size.
C21_DecodeFailureCloses ==
    /\ LET after(g, r) ==
             g.err # Nil =>
                /\ r.n = 0 /\ r.data = <<>> /\ r.err = g.err
                /\ r.a.closed
                /\ r.a.packets = NilPackets /\ r.a.decoded = NilDecoded
                /\ \A m \in WellFormed :
                      ProcessWRP(r.a, m) = [a |-> r.a, err |-> ErrClosed]
                /\ \A plen \in BufSizes :
                      Read(r.a, plen).err # Nil /\ Read(r.a, plen).n = 0
       IN  \A size \in BufSizes :
              after(getPacket(Assembler, current), Read(Assembler, size))
    /\ (last.op = "Read" /\ last.failed) =>
          /\ last.n = 0 /\ last.err # Nil
          /\ closed /\ packets = NilPackets /\ decoded = NilDecoded

\* a Read met an undecodable fragment while others were buffered behind it,
\* after bytes had been delivered
C21_Witness ==
    /\ last.op = "Read" /\ last.failed /\ last.held > 1
    /\ delivered # <<>> /\ current > 0
    /\ closed /\ packets = NilPackets

(***************************************************************************)
(* Atomicity of the Assembler's calls, under SpecConcurrent.               *)
(***************************************************************************)
\* the threads between a.m.Lock() and a.m.Unlock()
Locked == {t \in Threads : threads[t].pc \notin {"idle", "Lock", "Return"}}

\* C22: with one thread calling Read and any thread calling ProcessWRP and
\* Close, at most one call is between Lock and Unlock; whenever the mutex is
\* free the Assembler is the one the calls so far leave when they run whole,
\* one after another in the order they took the lock, and every call
\* returns what it returns in that serial run.
C22_Serializable ==
    /\ Cardinality(Locked) <= 1
    /\ \A t \in Locked : mutex = t
    /\ mutex = Unlocked => Locked = {} /\ Assembler = serial
    /\ \A t \in Threads :
          /\ threads[t].pc = "Unlock" =>
                threads[t].ret = threads[t].want /\ Assembler = serial
          /\ threads[t].pc = "Return" => threads[t].ret = threads[t].want

C22_Witness ==
    /\ threads[Reader].pc = "advance"
    /\ threads[Reader].ret.data # <<>>
    /\ offset >= Len(threads[Reader].buf)
    /\ \A t \in Writers : threads[t].pc = "Lock"
    /\ Assembler # serial

(***************************************************************************)
(* Construction of a Packetizer, under SpecNew.                            *)
(***************************************************************************)
\* the characters of [A-Za-z0-9_-]
IDCharset ==
    {Upper[i] : i \in 1..26} \cup {Lower[i] : i \in 1..26}
       \cup {Digits[i] : i \in 1..10} \cup {"_", "-"}

\* the options New was called with leave something required out or wrong
Rejected ==
    \/ ~args.hasReader
    \/ args.id = <<>>
    \/ \E i \in 1..Len(args.id) : args.id[i] \notin IDCharset
    \/ args.e \notin {<<>>, EncodingIdentity, EncodingGzip, EncodingDeflate}

C25_OwnEncoding ==
    /\ ~decoded.isNil =>
          /\ ~packets.isNil /\ decoded.number = current
          /\ current \in DOMAIN packets.m
          /\ decode(packets.m[current].StreamEncoding,
                    packets.m[current].Payload)
                = [data |-> decoded.data, err |-> Nil]
    /\ (~packets.isNil /\ current \in DOMAIN packets.m) =>
          LET own(d) ==
                d.err = Nil =>
                   \A plen \in BufSizes :
                      Read(Assembler, plen).data
                         = Copy(plen, SubSeq(d.data, offset + 1, Len(d.data)))
          IN  own(decode(packets.m[current].StreamEncoding,
                         packets.m[current].Payload))

\* fragment 0 without a tag, fragment 1 under gzip and fragment 2 under
\* deflate were read to the clean end of the stream
C25_Witness ==
    /\ delivered = Bytes(0, 2) \o Bytes(1, 1) \o Bytes(2, 2)
    /\ termOutcome = EOF
    /\ last.op = "Read" /\ last.n > 0

(***************************************************************************)
(* The header frame, under SpecCodec.                                      *)
(***************************************************************************)
\* the line is "key: value" with one of the five SSP keys, in any case and
\* with any white space around the key
IsControlLine(line) ==
    \E i \in 1..Len(line) :
       /\ line[i] = ":"
       /\ \A j \in 1..(i - 1) : line[j] # ":"
       /\ ToLower(TrimSpace(SubSeq(line, 1, i - 1))) \in headerKeys

OtherLines(hdrs) == SelectSeq(hdrs, LAMBDA line : ~IsControlLine(line))

\* C26: the envelope To writes from the message From decoded has the
\* non-SSP header lines of the envelope From read, each as it was, as many
\* times as it was there and in the same order, followed only by control
\* lines; and From reads every control field To wrote back with the value it
\* had in the message.
C26_HeaderFrame ==
    /\ last.op = "To" => last.err = Nil
    /\ (last.op \in {"To", "FromBack"} /\ last.err = Nil) =>
          LET frame(ssm, out) ==
                /\ OtherLines(out.Headers) = OtherLines(args.msg.Headers)
                /\ SubSeq(out.Headers, 1, Len(OtherLines(out.Headers)))
                      = OtherLines(args.msg.Headers)
                /\ ssm.Headers = OtherLines(args.msg.Headers)
          IN  frame(From(args.msg, args.skip).ssm, wire[1])
    /\ last.op = "FromBack" =>
          LET back(ssm, f) ==
                /\ f.err = Nil
                /\ f.ssm.Headers = ssm.Headers
                /\ ssm.StreamID # <<>> => f.ssm.StreamID = ssm.StreamID
                /\ ssm.StreamPacketNumber >= 0 =>
                      f.ssm.StreamPacketNumber = ssm.StreamPacketNumber
                /\ ssm.StreamEstimatedLength > 0 =>
                      f.ssm.StreamEstimatedLength = ssm.StreamEstimatedLength
                /\ ssm.StreamFinalPacket # <<>> =>
                      f.ssm.StreamFinalPacket = ssm.StreamFinalPacket
                /\ (isValid(ssm.StreamEncoding)
                      /\ ssm.StreamEncoding \notin {<<>>, EncodingIdentity}) =>
                      f.ssm.StreamEncoding = ssm.StreamEncoding
          IN  back(From(args.msg, args.skip).ssm, From(wire[1], args.skip))

\* two non-SSP lines around a control line spelt in upper case
C26_Witness ==
    /\ last.op = "FromBack" /\ last.err = Nil
    /\ Len(args.msg.Headers) = 3
    /\ Len(OtherLines(args.msg.Headers)) = 2
    /\ IsControlLine(args.msg.Headers[2])
    /\ args.msg.Headers[1] # args.msg.Headers[3]
    /\ From(wire[1], args.skip).ssm.StreamID = <<"t">>

(***************************************************************************)
(* The empty final-packet header, under SpecIngest.                        *)
(***************************************************************************)
\* C27: a fragment whose stream-final-packet header is present with no
\* value is decoded with the marker eof, and an Assembler that has it at
\* the cursor returns io.EOF from the Read that takes its last byte.
C27_EmptyMarkerIsEOF ==
    (~closed /\ final = <<>> /\ current = 1 /\ ~Buffered(1)) =>
       /\ FromEnvelope(EmptyMarker, Validators).ssm.StreamFinalPacket
             = <<"e", "o", "f">>
       /\ LET taken(r) == r.n = 1 /\ r.err = EOF
          IN  taken(Read(ProcessWRP(Assembler, EmptyMarker).a, MaxBuf))

(***************************************************************************)
(* The terminal fragment at the cursor, under Spec.                        *)
(***************************************************************************)
\* C28: when the fragment at the cursor carries a final-packet marker and
\* the decoded bytes Read has not yet returned from it fit in the buffer,
\* Read returns exactly those bytes and, in the same call, io.EOF if the
\* marker is eof and otherwise an error that is io.ErrUnexpectedEOF to
\* errors.Is; every Read of the Assembler it leaves returns zero bytes and
\* that error.
C28_TerminalInSameCall ==
    /\ Buffered(current) =>
          LET last_(f, d, plen, r) ==
                /\ r.n = Len(d.data) - offset
                /\ r.data = SubSeq(d.data, offset + 1, Len(d.data))
                /\ IF ToLower(TrimSpace(f.StreamFinalPacket))
                        = <<"e", "o", "f">>
                   THEN r.err = EOF
                   ELSE r.err # EOF /\ ErrorIs(r.err, ErrUnexpectedEOF)
                /\ \A again \in BufSizes :
                      /\ Read(r.a, again).n = 0
                      /\ Read(r.a, again).err = r.err
              terminal(f, d) ==
                (f.StreamFinalPacket # <<>> /\ d.err = Nil) =>
                   \A plen \in BufSizes :
                      Len(d.data) - offset <= plen =>
                         last_(f, d, plen, Read(Assembler, plen))
          IN  terminal(packets.m[current],
                       decode(packets.m[current].StreamEncoding,
                              packets.m[current].Payload))
    /\ (last.op = "Read" /\ last.fin # <<>> /\ last.left = 0) =>
          /\ IsTerminalOutcome(last.err)
          /\ closed

\* the last byte of a stream that ended with a reason other than eof was
\* returned with the error, after the bytes of an earlier fragment
C28_Witness ==
    /\ last.op = "Read" /\ last.n > 0 /\ last.fin # <<>>
    /\ last.left = 0
    /\ last.err.kind = "unexpectedEOF"
    /\ Len(delivered) > last.n
    /\ closed

(***************************************************************************)
(* The payloads Next emits, under SpecPacketizer.                          *)
(***************************************************************************)
\* C29: the payload of every envelope Next has returned, the empty payload
\* of a terminal fragment included, decodes without error under the
\* stream-encoding tag the envelope carries.
C29_EveryPayloadDecodes ==
    \A i \in 1..Len(wire) :
        decode(Emitted(i).StreamEncoding, wire[i].Payload).err = Nil

(***************************************************************************)
(* The encoding failure in Next, under SpecEncodeFailure.                  *)
(***************************************************************************)
\* the last call was a Next in which encode was called with the bytes read
\* and failed, for a template the envelope library accepts and with the
\* transaction-id generator, if any, succeeding
EncodeFailed ==
    /\ last.op = "Next"
    /\ last.failed
    /\ last.wellFormed
    /\ ~last.txFailed

Unproductive == args.pc = "loop" /\ args.n = 0 /\ args.err = Nil

\* C31: a call of Next whose reads have all returned zero bytes and no
\* error does not return: while the context is not done its next step is
\* another read of the source.  A read begins only from a select at which
\* the context was not done; at a select at which it is done the loop ends
\* with the cancellation error and no further read.  Hence the loop of a
\* call whose context is done ends, and if its reads were unproductive the
\* cancellation error is the outcome stored, which the call returns with.
C31_BusyPoll ==
    /\ [][(args.pc = "loop" /\ args'.pc = "after")
             => (args.n > 0 \/ args.err # Nil)]_vars
    /\ [][(args.pc # "idle" /\ args'.pc = "idle") => args.pc = "after"]_vars
    /\ [][(Unproductive /\ ~ctxDone /\ args' # args)
             => (args'.pc = "read" /\ p' = p)]_vars
    /\ [][(args.pc # "read" /\ args'.pc = "read") => ~ctxDone]_vars
    /\ [][(Unproductive /\ ctxDone /\ args' # args)
             => /\ args'.pc = "loop" /\ args'.err = ErrCanceled
                /\ args'.reads = args.reads
                /\ p'.stream = p.stream]_vars
    /\ [][(args.pc = "after" /\ args.err = ErrCanceled
              /\ args'.pc = "idle")
             => p'.outcome = ErrCanceled]_vars
    /\ (ctxDone /\ args.pc \in {"loop", "read"}) ~> (args.pc = "after")
    /\ (ctxDone /\ Unproductive)
          ~> (args.pc = "after" /\ p.outcome = ErrCanceled)

\* the source answered more than MaxStalls reads of one call with (0, nil),
\* the context was cancelled, and the call has returned the cancellation
C31_Witness ==
    /\ last.op = "Next" /\ ~last.after
    /\ last.reads > MaxStalls /\ last.n = 0
    /\ last.err = ErrCanceled /\ p.outcome = ErrCanceled
    /\ args.pc = "idle"

(***************************************************************************)
(* The decode cache, under Spec.                                           *)
(***************************************************************************)
\* the cache holds the decoded bytes of the fragment buffered at the cursor
CacheOfCursor ==
    /\ ~packets.isNil /\ current \in DOMAIN packets.m
    /\ decoded.number = current
    /\ decoded.data = decode(packets.m[current].StreamEncoding,
                             packets.m[current].Payload).data

\* C32: the decode cache is empty or holds the decoded bytes of the fragment
\* buffered at the cursor, of which a part is then still to be delivered; it
\* is empty after every step that moves the cursor, after a Read that met a
\* decode failure and once the Assembler is closed.  While a fragment is
\* partly delivered and the Assembler open the cache holds it, so that the
\* Reads that drain it take the cached bytes: getPacket returns them and
\* leaves the Assembler as it is.
C32_DecodeCache ==
    /\ [](~decoded.isNil =>
            /\ CacheOfCursor
            /\ ~closed
            /\ offset > 0 /\ offset < Len(decoded.data))
    /\ []((offset > 0 /\ ~closed) =>
            /\ ~decoded.isNil
            /\ getPacket(Assembler, current) =
                  [a |-> Assembler, msg |-> packets.m[current],
                   buf |-> decoded.data, found |-> TRUE, err |-> Nil])
    /\ []((closed \/ (last.op = "Read" /\ last.failed)) => decoded.isNil)
    /\ [][current' # current => decoded'.isNil]_vars

\* a Read has delivered the first part of the second fragment and the cache
\* holds the whole of it
C32_Witness ==
    /\ ~decoded.isNil /\ CacheOfCursor
    /\ current = 1
    /\ offset > 0 /\ Len(decoded.data) > offset
    /\ last.op = "Read" /\ last.n = offset

(***************************************************************************)
(* Fragments that arrive under a buffered packet number, under             *)
(* SpecConcurrent.                                                         *)
(***************************************************************************)

\* thread t is about to look its fragment up in a.packets and the number is
\* already there
ArrivesBuffered(t) ==
    /\ threads[t].pc = "store"
    /\ Buffered(threads[t].ssp.StreamPacketNumber)

\* C33: first arrival wins.  A fragment stays in the buffer exactly as it
\* was stored for as long as its packet number is buffered; a ProcessWRP
\* whose fragment carries a buffered packet number leaves the buffer as it
\* is and returns nil, also when the payload and the headers of the new
\* fragment differ from the buffered ones; and in every state ProcessWRP
\* of any envelope that parses to a buffered number is the identity on the
\* Assembler with a nil error.
C33_FirstArrivalWins ==
    /\ [][\A n \in DOMAIN packets.m :
             (~packets'.isNil /\ n \in DOMAIN packets'.m)
                => packets'.m[n] = packets.m[n]]_vars
    /\ [][\A t \in Writers :
             (ArrivesBuffered(t) /\ threads'[t] # threads[t])
                => /\ packets' = packets
                   /\ threads'[t].pc = "Unlock"
                   /\ threads'[t].ret.err = Nil]_vars
    /\ [](\A m \in Sent :
             (/\ IsSSP(m)
              /\ FromEnvelope(m, Validators).err = Nil
              /\ Buffered(FromEnvelope(m, Validators).ssm.StreamPacketNumber))
                => ProcessWRP(Assembler, m) = [a |-> Assembler, err |-> Nil])

\* a writer has just been answered nil for a compressed fragment 0 while
\* the plain fragment 0 that came first is still the one in the buffer
C33_Witness ==
    \E t \in Writers :
        /\ threads[t].pc = "Unlock"
        /\ threads[t].ret.err = Nil
        /\ threads[t].ssp.StreamPacketNumber = 0
        /\ threads[t].ssp.StreamEncoding = EncodingGzip
        /\ Buffered(0)
        /\ packets.m[0].Payload = Bytes(0, 2)
        /\ packets.m[0].StreamEncoding # EncodingGzip
        /\ packets.m[0] # threads[t].ssp

(***************************************************************************)
(* The transaction-id generator, under SpecTxGen.                          *)
(***************************************************************************)

\* Next has returned a fragment in this step
Returned == Len(wire') = Len(wire) + 1

\* C34: with a generator configured, a call of Next that returns a fragment
\* invokes the generator exactly once, and the fragment carries the id that
\* invocation returned, not the template's; the fragments returned so far
\* carry pairwise different ids, each from an invocation of its own; a call
\* made after the Packetizer is terminal does not invoke the generator and
\* returns no fragment.
C34_TxGenOncePerFragment ==
    /\ [][(Returned /\ p.txGen)
             => /\ args'.calls = args.calls + 1
                /\ wire'[Len(wire')].TransactionUUID = IdOf(args'.calls)
                /\ wire'[Len(wire')].TransactionUUID
                      # Template.TransactionUUID]_vars
    /\ [][p.outcome # Nil
             => (args'.calls = args.calls /\ wire' = wire)]_vars
    /\ [](p.txGen =>
            /\ Len(wire) <= args.calls
            /\ \A i, j \in 1..Len(wire) :
                  i < j => \E k, l \in 1..args.calls :
                             /\ k < l
                             /\ wire[i].TransactionUUID = IdOf(k)
                             /\ wire[j].TransactionUUID = IdOf(l))

\* two fragments have been returned, each with the id of its own invocation,
\* and a call made after the terminal outcome has left the count alone
C34_Witness ==
    /\ p.txGen /\ p.outcome # Nil
    /\ Len(wire) = 2 /\ args.calls = 2
    /\ wire[1].TransactionUUID = IdOf(1)
    /\ wire[2].TransactionUUID = IdOf(2)
    /\ last.op = "Next" /\ last.after /\ last.isNil

(***************************************************************************)
(* Termination of the Assembler's calls, under SpecConcurrentFair.         *)
(***************************************************************************)

\* thread t is in Read, at the lookup of the fragment at the cursor, which
\* has not arrived, and no terminal reason is recorded
ReadFindsNothing(t) ==
    /\ threads[t].pc = "getPacket"
    /\ ~Buffered(current)
    /\ getFinalState(Assembler) = Nil

\* C35: Read, ProcessWRP and Close never wait.  The thread that holds the
\* mutex can always take its next step; a Read that finds the fragment at
\* the cursor missing returns zero bytes and no error with its next step;
\* every call that has taken the mutex reaches its return, and the mutex is
\* free again; a thread that is in no call, or has returned, does not hold
\* the mutex; and no state is a deadlock: a call that never locked can
\* return, and a call at a.m.Lock() can take the mutex unless another
\* thread holds it, and that thread can step.
C35_NeverWaits ==
    /\ [](\A t \in Threads :
             /\ mutex = t => ENABLED HolderStep(t)
             /\ threads[t].pc \in {"idle", "Lock", "Return"} => mutex # t)
    /\ [](mutex = Unlocked \/ mutex \in Threads)
    /\ [](\A t \in Threads :
             /\ threads[t].pc = "Return" => ENABLED Return(t)
             /\ threads[t].pc = "Lock" =>
                   \/ ENABLED ProcessWRPLock(t)
                   \/ mutex \in Threads \ {t} /\ ENABLED HolderStep(mutex))
    /\ [][\A t \in Threads :
             (ReadFindsNothing(t) /\ threads'[t] # threads[t])
                => /\ threads'[t].pc = "Unlock"
                   /\ threads'[t].ret = [data |-> <<>>, err |-> Nil]
                   /\ Assembler' = Assembler]_vars
    /\ [][\A t \in Threads :
             /\ (mutex = t /\ threads'[t].pc = "idle") => mutex' = Unlocked
             /\ (mutex = t /\ mutex' # t)
                   => (mutex' = Unlocked /\ threads'[t].pc = "idle")]_vars
    /\ (mutex # Unlocked) ~> (mutex = Unlocked)

\* a Read that found nothing at the cursor is about to return (0, nil)
\* while both writers wait for the mutex it still holds
C35_Witness ==
    /\ mutex = Reader
    /\ threads[Reader].pc = "Unlock"
    /\ threads[Reader].ret = [data |-> <<>>, err |-> Nil]
    /\ ~Buffered(current) /\ ~closed
    /\ \A t \in Writers : threads[t].pc = "Lock"

(***************************************************************************)
(* The buffer and the cursor, under Spec.                                  *)
(***************************************************************************)

\* C36: every buffered packet number is at or above the cursor.  The cursor
\* moves by one, in a Read, and the fragment it leaves behind is out of the
\* buffer in the state that Read leaves; a packet number enters the buffer
\* in a ProcessWRP only, and is then at or above the cursor; and ProcessWRP
\* of a well-formed fragment numbered below the cursor returns nil and
\* changes nothing.
C36_BufferedAtOrAboveCursor ==
    /\ [](\A n \in DOMAIN packets.m : n >= current)
    /\ [][current' # current
             => /\ current' = current + 1
                /\ last'.op = "Read"
                /\ ~(~packets'.isNil /\ current \in DOMAIN packets'.m)]_vars
    /\ [][\A n \in DOMAIN packets'.m :
             n \notin DOMAIN packets.m
                => /\ last'.op = "ProcessWRP" /\ last'.err = Nil
                   /\ n >= current /\ current' = current]_vars
    /\ [](~closed =>
            \A m \in Envelopes :
               (Parsed[m].is /\ Parsed[m].from.err = Nil
                  /\ Parsed[m].from.ssm.StreamPacketNumber < current)
                  => ProcessWRP(Assembler, m) = [a |-> Assembler, err |-> Nil])

\* fragment 0 was read whole, and a fragment numbered 0 that arrived
\* afterwards was answered nil and not buffered
C36_Witness ==
    /\ current = 1 /\ ~closed /\ delivered # <<>>
    /\ last.op = "ProcessWRP" /\ last.wellFormed /\ last.dup
    /\ last.err = Nil /\ last.held = 0
    /\ Held(Assembler) = 0

(***************************************************************************)
(* The terminal reason and the closed flag, under SpecConcurrent.          *)
(***************************************************************************)

\* C37: whenever no call holds the mutex, and whenever a call is at its
\* return, a.final # "" implies a.closed.  a.final changes in a Read only,
\* between its lookup of the fragment at the cursor and its return, while
\* it holds the mutex; a reason is first recorded on an open Assembler, and
\* the Read that recorded it has closed the Assembler when it returns.
C37_FinalImpliesClosed ==
    /\ [](mutex = Unlocked => (final # <<>> => closed))
    /\ [](\A t \in Threads :
             threads[t].pc = "Unlock" => (final # <<>> => closed))
    /\ [][final' # final
             => /\ mutex = Reader /\ mutex' = Reader
                /\ threads[Reader].pc \in {"getPacket", "copy"}
                /\ threads'[Reader].pc # "idle"]_vars
    /\ [][(final = <<>> /\ final' # <<>>) => ~closed]_vars

\* the Read that took the marker eof from the fragment at the cursor is at
\* its return: the reason is recorded and the Assembler is closed
C37_Witness ==
    /\ mutex = Reader
    /\ threads[Reader].pc = "Unlock"
    /\ threads[Reader].ret.err = EOF
    /\ threads[Reader].ssp.StreamFinalPacket # <<>>
    /\ final = <<"e", "o", "f">>
    /\ closed /\ packets = NilPackets

(***************************************************************************)
(* The closed flag, under Spec.                                            *)
(***************************************************************************)

\* C38: closed is absorbing.  No call clears the flag; while it is set the
\* buffer is nil and the decode cache is nil; and a call on a closed
\* Assembler changes none of its fields.
C38_ClosedAbsorbing ==
    /\ [][closed => closed']_vars
    /\ [](closed => (packets = NilPackets /\ decoded = NilDecoded))
    /\ [][closed => Assembler' = Assembler]_vars

\* a well-formed fragment arrived after the Assembler was closed, and
\* nothing is buffered or cached
C38_Witness ==
    /\ closed /\ packets = NilPackets /\ decoded = NilDecoded
    /\ last.op = "ProcessWRP" /\ last.wellFormed /\ last.wasClosed
    /\ ~last.dup /\ last.err = ErrClosed
    /\ last.held = 0

(***************************************************************************)
(* Delivery to the end of the stream, under SpecDeliverFair.               *)
(***************************************************************************)

\* the run's fragments are numbered 0..k, fragment k carries a final-packet
\* marker, and every payload decodes
Complete ==
    \E k \in DOMAIN frags :
        /\ DOMAIN frags = 0..k
        /\ frags[k] \in {StreamFragment(k, "deflate-eof"),
                         StreamFragment(k, "plain-oops")}
        /\ \A n \in DOMAIN frags : frags[n] # StreamFragment(n, "gzip-corrupt")

\* a Read is at its return with a terminal outcome
ReturnsTerminal ==
    /\ threads[Reader].pc = "Unlock"
    /\ IsTerminalOutcome(threads[Reader].ret.err)

\* C39: when the fragments 0..k of a stream, the last with a final-packet
\* marker and all decodable, are all handed to ProcessWRP, in any order, and
\* the consumer keeps calling Read with its buffer of one byte or more, a
\* Read returns a terminal outcome.  A Read returns one only with a reason
\* recorded and the Assembler closed, and the cursor never passes a
\* fragment that has not arrived.
C39_ConsumerLiveness ==
    /\ [](Complete => <>ReturnsTerminal)
    /\ [](ReturnsTerminal => (closed /\ final # <<>>
                                /\ threads[Reader].ret.err
                                      = getFinalState(Assembler)))
    /\ [](\A n \in 0..(current - 1) : n \notin Pending /\ n \in DOMAIN frags)

\* two data fragments and the final one arrived last to first, and the Read
\* that reached the final fragment is returning the unexpected end it names
C39_Witness ==
    /\ Complete /\ DOMAIN frags = 0..2
    /\ arrived = <<2, 1, 0>>
    /\ frags[0] = StreamFragment(0, "plain")
    /\ frags[1] = StreamFragment(1, "plain")
    /\ frags[2] = StreamFragment(2, "plain-oops")
    /\ ReturnsTerminal
    /\ threads[Reader].ret.err.kind = "unexpectedEOF"
    /\ current = 3 /\ closed

(***************************************************************************)
(* Independence of the stream id, under SpecStreams.                       *)
(***************************************************************************)

\* the Assembler a with the stream ids of its buffered fragments left out
Unlabelled(a) ==
    [a EXCEPT !.packets.m =
        [k \in DOMAIN a.packets.m |->
           [a.packets.m[k] EXCEPT !.StreamID = <<>>]]]

\* the stream ids of the fragments a has buffered
Streams(a) == {a.packets.m[k].StreamID : k \in DOMAIN a.packets.m}

\* C40: two runs of the same calls, whose fragments agree in packet number,
\* final-packet marker, encoding tag and payload, one with any non-empty
\* stream id on each fragment and the other with one stream id on all of
\* them, are in every state equal in cursor, offset, closed flag,
\* terminal reason, decode cache and buffer, but for the stream ids of the
\* buffered fragments, and their last calls returned the same bytes and the
\* same error; so an Assembler given fragments of two streams buffers and
\* reads them by packet number as if they were one stream's.
C40_StreamIDIgnored ==
    /\ Unlabelled(Assembler) = Unlabelled(args.b)
    /\ args.errA = args.errB
    /\ args.dataA = args.dataB

\* one run was given fragment 0 of stream s and fragment 1 of stream t, the
\* other both from stream s; the first byte of fragment 0 has been read, and
\* the Read just made returned its second byte in both runs
C40_Witness ==
    /\ args.op = "Read" /\ args.dataA = <<Byte(0, 2)>> /\ args.errA = Nil
    /\ current = 1 /\ ~closed
    /\ DOMAIN packets.m = {1}
    /\ packets.m[1].StreamID = <<"t">>
    /\ Streams(args.b) = {<<"s">>}
    /\ Assembler # args.b

====
